---- MODULE Spec2Model ----
(***************************************************************************)
(* Contextual-bandit decision loop of the assessment backend               *)
(* (src/frontend/backend/app/rl_assessment.py): session start, session     *)
(* step, feature extraction, action selection, reward, weight update and   *)
(* policy-metric tracking.                                                 *)
(*                                                                         *)
(* Numbers.  The code works on Python floats that it rounds to a fixed     *)
(* number of decimals.  The model keeps every quantity as an integer in    *)
(* the unit of its rounding:                                               *)
(*    pause_length            centiseconds   (round(..., 2))               *)
(*    features, fail_rate,                                                 *)
(*    cleanliness, reward,                                                 *)
(*    policy metrics          thousandths    (round(..., 3))               *)
(*    reward_baseline         1e-4           (round(..., 4))               *)
(*    weights, biases         1e-6           (round(..., 6))               *)
(*    scores                  pair (1e-6, 1e-9), never rounded by the code *)
(* Intermediate values are exact rationals and round() is round-half-even  *)
(* on the exact value.                                                     *)
(***************************************************************************)
EXTENDS Integers, Sequences, FiniteSets, TLC

VARIABLES
    bandit_sessions,   \* session id -> session record
    weight_dicts,      \* heap of weight-vector dict objects, by reference
    metric_dicts,      \* heap of policy-metric dict objects, by reference
    rl_training_data,  \* global list of tick records
    pending,           \* tick id -> coroutine frame suspended at the await
    nticks,            \* number of step requests received so far
    now,               \* wall clock, seconds
    response           \* what the last event returned to its caller, if anything,
                       \* with the session id asked for (request) and what the
                       \* hint call came to (callOutcome)

vars == <<bandit_sessions, weight_dicts, metric_dicts, rl_training_data,
          pending, nticks, now, response>>

-----------------------------------------------------------------------------
(* Bounds of the model *)

\* step requests in a run
MaxTicks == 2

\* advances of the clock in a run
MaxClock == 1

\* The ids uuid4 gives to the sessions, in the order it gives them, and an id
\* it never gives
SessionIds == <<"rlsess_a", "rlsess_b">>
UnknownIds == {"rlsess_x"}

-----------------------------------------------------------------------------
(* Constants of the program *)

ACTION_SPACE ==
    << "no_hint", "gentle_hint", "strong_hint", "debug_followup",
       "refactor_followup", "optimization_followup", "edge_case_followup" >>

Actions == { ACTION_SPACE[i] : i \in 1..Len(ACTION_SPACE) }

NumFeatures == 9

MetricNames ==
    {"debugging", "refactor", "time_factor_optimization", "edge_case_resilience"}

DEFAULT_POLICY_METRICS == [k \in MetricNames |-> 250]

Repeat9(v) == [i \in 1..NumFeatures |-> v]

\* Variant: the same prior for every action
DEFAULT_ACTION_WEIGHTS_Uniform == [a \in Actions |-> Repeat9(100000)]

DEFAULT_ACTION_WEIGHTS ==
    [a \in Actions |->
        IF a \in {"debug_followup", "refactor_followup",
                  "optimization_followup", "edge_case_followup"}
        THEN Repeat9(100000)
        ELSE IF a \in {"gentle_hint", "strong_hint"}
        THEN Repeat9(80000)
        ELSE Repeat9(50000)]

DefaultRef == "DEFAULT"

SessionLifetime == 1800

InitialBaseline == 3000

None == [none |-> TRUE]

-----------------------------------------------------------------------------
(* Arithmetic helpers *)

Min(a, b) == IF a < b THEN a ELSE b
Max(a, b) == IF a > b THEN a ELSE b

\* Python round(): nearest, ties to even, of the exact rational n / d (d > 0)
RoundHalfEven(n, d) ==
    LET q == n \div d
        r == n % d
    IN  IF 2 * r < d THEN q
        ELSE IF 2 * r > d THEN q + 1
        ELSE IF q % 2 = 0 THEN q ELSE q + 1

RECURSIVE SumTo(_, _)
SumTo(f, n) == IF n = 0 THEN 0 ELSE f[n] + SumTo(f, n - 1)

-----------------------------------------------------------------------------
(* Feature extractor *)

\* A line of code text, reduced to what analyze_code_cleanliness looks at
PlainLine == [long |-> FALSE, todo |-> FALSE, tabmix |-> FALSE]
TodoLine == [long |-> FALSE, todo |-> TRUE, tabmix |-> FALSE]

\* re.search(r"print\\s*\\(", ln): in a raw string the doubled backslashes
\* are literal backslashes and the "(" opens a group that is never closed,
\* so compiling the pattern raises re.error on the first line it is tried on.
PrintDebugSearch(ln) == [raised |-> TRUE, found |-> FALSE]

\* sum(1 for ln in lines if ...), for each of the four tests
LongLines(code) == Cardinality({i \in 1..Len(code) : code[i].long})
TodoCount(code) == Cardinality({i \in 1..Len(code) : code[i].todo})
TabMix(code) == Cardinality({i \in 1..Len(code) : code[i].tabmix})
PrintDebug(code) ==
    Cardinality({i \in 1..Len(code) : PrintDebugSearch(code[i]).found})

\* code is the result of code.splitlines(): a sequence of lines
analyze_code_cleanliness(code) ==
    IF Len(code) = 0
    THEN [raised |-> FALSE, score |-> 0]
    ELSE IF \E i \in 1..Len(code) : PrintDebugSearch(code[i]).raised
    THEN [raised |-> TRUE, score |-> 0]
    ELSE LET n == Len(code)
             \* style_penalty * n * 1000
             penalty == LongLines(code) * 250
                        + TodoCount(code) * 200
                        + TabMix(code) * 100
                        + Min(PrintDebug(code), 3) * 50 * n
         IN  [raised |-> FALSE,
              score |-> RoundHalfEven(Max(0, 1000 * n - penalty), n)]

\* pause in centiseconds -> thousandths
normalize_pause(pause_cs) == Min(RoundHalfEven(pause_cs * 1000, 6000), 1000)

normalize_hints_used(count) == Min(RoundHalfEven(count * 1000, 3), 1000)

normalize_difficulty(level) ==
    IF level = "easy" THEN 200
    ELSE IF level = "medium" THEN 500
    ELSE IF level = "hard" THEN 800
    ELSE 500

\* Which of the markers categorize_error looks for occur in the lower-cased
\* form of a word of an error text
MarkersIn(word) ==
    IF word = "SyntaxError" THEN {"syntax"}
    ELSE IF word = "ParseError" THEN {"parse"}
    ELSE IF word = "Timeout" THEN {"timeout"}
    ELSE IF word = "TIMEOUT" THEN {"timeout"}
    ELSE IF word = "AssertionError" THEN {"assert"}
    ELSE IF word = "expected" THEN {"expect"}
    ELSE IF word = "TypeError" THEN {"typeerror"}
    ELSE IF word = "ValueError" THEN {"valueerror"}
    ELSE {}

\* marker in err_msg.lower(); an error text is a sequence of words
LowerContains(text, marker) ==
    \E i \in 1..Len(text) : marker \in MarkersIn(text[i])

\* Variant: the timeout marker is looked for before the syntax markers
categorize_error_TimeoutFirst(err_msg) ==
    IF Len(err_msg) = 0 THEN "none"
    ELSE IF LowerContains(err_msg, "timeout") THEN "timeout"
    ELSE IF LowerContains(err_msg, "syntax") \/ LowerContains(err_msg, "parse")
    THEN "syntax"
    ELSE IF LowerContains(err_msg, "assert") \/ LowerContains(err_msg, "expect")
    THEN "edge_case"
    ELSE "runtime"

categorize_error(err_msg) ==
    IF Len(err_msg) = 0 THEN "none"
    ELSE IF LowerContains(err_msg, "syntax") \/ LowerContains(err_msg, "parse")
    THEN "syntax"
    ELSE IF LowerContains(err_msg, "timeout") THEN "timeout"
    ELSE IF LowerContains(err_msg, "assert") \/ LowerContains(err_msg, "expect")
    THEN "edge_case"
    ELSE IF LowerContains(err_msg, "typeerror") \/ LowerContains(err_msg, "valueerror")
    THEN "runtime"
    ELSE "runtime"

\* The "error" entry of an execution-attempt record: missing, null or a string
ErrAbsent == [kind |-> "absent", text |-> <<>>]
ErrNull == [kind |-> "null", text |-> <<>>]
ErrText(t) == [kind |-> "str", text |-> t]

\* Variant: attempt.get("passed", True), a missing field read as a pass
PassedTruthy_DefaultTrue(attempt) == attempt.passed \in {"true", "absent"}

\* attempt.get("passed", False), as a truth value
PassedTruthy(attempt) == attempt.passed = "true"

\* attempt.get("error"), as a truth value
ErrorTruthy(attempt) == attempt.error.kind = "str" /\ Len(attempt.error.text) > 0

\* str(attempt.get("error", "")): a missing key gives "", null gives "None"
ErrorStr(attempt) ==
    IF attempt.error.kind = "absent" THEN <<>>
    ELSE IF attempt.error.kind = "null" THEN <<"None">>
    ELSE attempt.error.text

AttemptFails(attempt) == ~PassedTruthy(attempt) \/ ErrorTruthy(attempt)

\* Variant: the error text of the last attempt is categorized whether or not
\* the attempt failed
LastError_AnyAttempt(attempts, n) ==
    IF n = 0 THEN "none" ELSE categorize_error(ErrorStr(attempts[n]))

RECURSIVE LastError(_, _)
\* the loop of summarize_failures over the first n attempts
LastError(attempts, n) ==
    IF n = 0 THEN "none"
    ELSE IF AttemptFails(attempts[n])
    THEN categorize_error(ErrorStr(attempts[n]))
    ELSE LastError(attempts, n - 1)

summarize_failures(execution_attempts) ==
    IF Len(execution_attempts) = 0
    THEN [fail_rate |-> 0, error_type |-> "none"]
    ELSE LET fail_count ==
                 Cardinality({i \in 1..Len(execution_attempts) :
                                 AttemptFails(execution_attempts[i])})
         IN  [fail_rate |-> RoundHalfEven(fail_count * 1000,
                                          Max(Len(execution_attempts), 1)),
              error_type |-> LastError(execution_attempts,
                                       Len(execution_attempts))]

\* step: [code, pauseDuration (ms), executionAttempts, hintsUsed (length of
\* the list), totalChanges]
build_context_features(step, session_meta) ==
    LET quality == analyze_code_cleanliness(step.code)
        fails == summarize_failures(step.executionAttempts)
    IN  IF quality.raised
        THEN [raised |-> TRUE, context |-> None]
        ELSE [raised |-> FALSE,
              context |->
                [pause_length |-> RoundHalfEven(step.pauseDuration, 10),
                 code_cleanliness |-> quality.score,
                 fail_rate |-> fails.fail_rate,
                 error_type |-> fails.error_type,
                 difficulty |-> session_meta.difficulty,
                 hints_used |-> step.hintsUsed,
                 total_changes |-> step.totalChanges]]

\* Variant: the runtime slot is set for every error type that is not "none"
feature_vector_from_context_RuntimeCatchAll(context) ==
    LET err == context.error_type
    IN  << normalize_pause(context.pause_length),
           context.code_cleanliness,
           context.fail_rate,
           normalize_hints_used(context.hints_used),
           normalize_difficulty(context.difficulty),
           IF err = "syntax" THEN 1000 ELSE 0,
           IF err # "none" THEN 1000 ELSE 0,
           IF err = "edge_case" THEN 1000 ELSE 0,
           IF err = "timeout" THEN 1000 ELSE 0 >>

feature_vector_from_context(context) ==
    LET err == context.error_type
    IN  << normalize_pause(context.pause_length),
           context.code_cleanliness,
           context.fail_rate,
           normalize_hints_used(context.hints_used),
           normalize_difficulty(context.difficulty),
           IF err = "syntax" THEN 1000 ELSE 0,
           IF err = "runtime" THEN 1000 ELSE 0,
           IF err = "edge_case" THEN 1000 ELSE 0,
           IF err = "timeout" THEN 1000 ELSE 0 >>

-----------------------------------------------------------------------------
(* Bandit policy *)

\* The first four characters of each action name, for action.startswith("hint")
NamePrefix4(action) ==
    IF action = "no_hint" THEN "no_h"
    ELSE IF action = "gentle_hint" THEN "gent"
    ELSE IF action = "strong_hint" THEN "stro"
    ELSE IF action = "debug_followup" THEN "debu"
    ELSE IF action = "refactor_followup" THEN "refa"
    ELSE IF action = "optimization_followup" THEN "opti"
    ELSE "edge"

\* Variant: action.endswith("hint")
StartsWithHint_EndsWith(action) ==
    action \in {"no_hint", "gentle_hint", "strong_hint"}

StartsWithHint(action) == NamePrefix4(action) = "hint"

\* Variant: the hint penalty applies to the two hint actions
action_bias_HintPenalty(action, context, policy_metrics) ==
    (IF context.pause_length > 2000 /\ action \in {"gentle_hint", "strong_hint"}
        THEN 150000 ELSE 0)
    + (IF context.pause_length > 4000 /\ action = "strong_hint"
        THEN 250000 ELSE 0)
    + (IF context.fail_rate >= 500 /\ action \in {"debug_followup", "strong_hint"}
        THEN 200000 ELSE 0)
    + (IF context.code_cleanliness < 600
          /\ action \in {"refactor_followup", "gentle_hint"}
        THEN 180000 ELSE 0)
    + (IF policy_metrics["time_factor_optimization"] > 350
          /\ action = "optimization_followup"
        THEN 120000 ELSE 0)
    + (IF context.error_type = "edge_case" /\ action = "edge_case_followup"
        THEN 220000 ELSE 0)
    + (IF context.hints_used >= 2 /\ action = "no_hint" THEN 50000 ELSE 0)
    - (IF context.hints_used >= 2 /\ action \in {"gentle_hint", "strong_hint"}
        THEN 50000 ELSE 0)

\* Variant: the two pause thresholds are inclusive
action_bias_PauseInclusive(action, context, policy_metrics) ==
    (IF context.pause_length >= 2000 /\ action \in {"gentle_hint", "strong_hint"}
        THEN 150000 ELSE 0)
    + (IF context.pause_length >= 4000 /\ action = "strong_hint"
        THEN 250000 ELSE 0)
    + (IF context.fail_rate >= 500 /\ action \in {"debug_followup", "strong_hint"}
        THEN 200000 ELSE 0)
    + (IF context.code_cleanliness < 600
          /\ action \in {"refactor_followup", "gentle_hint"}
        THEN 180000 ELSE 0)
    + (IF policy_metrics["time_factor_optimization"] > 350
          /\ action = "optimization_followup"
        THEN 120000 ELSE 0)
    + (IF context.error_type = "edge_case" /\ action = "edge_case_followup"
        THEN 220000 ELSE 0)
    + (IF context.hints_used >= 2 /\ action = "no_hint" THEN 50000 ELSE 0)
    - (IF context.hints_used >= 2 /\ StartsWithHint(action) THEN 50000 ELSE 0)

\* in 1e-6
action_bias(action, context, policy_metrics) ==
    (IF context.pause_length > 2000 /\ action \in {"gentle_hint", "strong_hint"}
        THEN 150000 ELSE 0)
    + (IF context.pause_length > 4000 /\ action = "strong_hint"
        THEN 250000 ELSE 0)
    + (IF context.fail_rate >= 500 /\ action \in {"debug_followup", "strong_hint"}
        THEN 200000 ELSE 0)
    + (IF context.code_cleanliness < 600
          /\ action \in {"refactor_followup", "gentle_hint"}
        THEN 180000 ELSE 0)
    + (IF policy_metrics["time_factor_optimization"] > 350
          /\ action = "optimization_followup"
        THEN 120000 ELSE 0)
    + (IF context.error_type = "edge_case" /\ action = "edge_case_followup"
        THEN 220000 ELSE 0)
    + (IF context.hints_used >= 2 /\ action = "no_hint" THEN 50000 ELSE 0)
    - (IF context.hints_used >= 2 /\ StartsWithHint(action) THEN 50000 ELSE 0)

\* A score is the exact value micro * 1e-6 + nano * 1e-9 with 0 <= nano < 1000
\* (a weight in 1e-6 times a feature in 1e-3 is a multiple of 1e-9).
Score(w, feature_vec, bias) ==
    LET hi == [i \in 1..NumFeatures |-> (w[i] \div 1000) * feature_vec[i]]
        lo == [i \in 1..NumFeatures |-> (w[i] % 1000) * feature_vec[i]]
        sumHi == SumTo(hi, NumFeatures)
        sumLo == SumTo(lo, NumFeatures)
    IN  [micro |-> sumHi + (sumLo \div 1000) + bias, nano |-> sumLo % 1000]

ScoreGreater(s, t) ==
    \/ s.micro > t.micro
    \/ s.micro = t.micro /\ s.nano > t.nano

\* Variant: among the actions with the highest score, the last in the order
ArgMax_LastMax(scores) ==
    LET best == CHOOSE i \in 1..Len(ACTION_SPACE) :
                    /\ \A j \in 1..Len(ACTION_SPACE) :
                          ~ScoreGreater(scores[ACTION_SPACE[j]],
                                        scores[ACTION_SPACE[i]])
                    /\ \A j \in (i + 1)..Len(ACTION_SPACE) :
                          ScoreGreater(scores[ACTION_SPACE[i]],
                                       scores[ACTION_SPACE[j]])
    IN  ACTION_SPACE[best]

\* max(scores, key=scores.get): the first action, in the insertion order of
\* scores (the order of ACTION_SPACE), that no other action beats
ArgMax(scores) ==
    LET best == CHOOSE i \in 1..Len(ACTION_SPACE) :
                    /\ \A j \in 1..Len(ACTION_SPACE) :
                          ~ScoreGreater(scores[ACTION_SPACE[j]],
                                        scores[ACTION_SPACE[i]])
                    /\ \A j \in 1..(i - 1) :
                          ScoreGreater(scores[ACTION_SPACE[i]],
                                       scores[ACTION_SPACE[j]])
    IN  ACTION_SPACE[best]

\* Variant: the scores are the dot products alone
select_bandit_action_NoBias(weights, policy_metrics, context, feature_vec, explore, choice) ==
    LET scores == [a \in Actions |-> Score(weights[a], feature_vec, 0)]
    IN  [chosen |-> IF explore THEN choice ELSE ArgMax(scores),
         scores |-> scores]

\* explore: random.random() < epsilon;  choice: random.choice(ACTION_SPACE)
select_bandit_action(weights, policy_metrics, context, feature_vec, explore, choice) ==
    LET scores == [a \in Actions |->
                     Score(weights[a], feature_vec,
                           action_bias(a, context, policy_metrics))]
    IN  [chosen |-> IF explore THEN choice ELSE ArgMax(scores),
         scores |-> scores]

-----------------------------------------------------------------------------
(* Reward calculator *)

\* Variant: no cold-start test, a missing previous context read as all zeros
compute_reward_NoColdStart(context, prev_context) ==
    LET prev == IF prev_context = None
                THEN [fail_rate |-> 0, code_cleanliness |-> 0,
                      total_changes |-> 0]
                ELSE prev_context
        info_gain10 == Min(Max(context.total_changes - prev.total_changes, 0),
                           10)
    IN  RoundHalfEven(5 * (prev.fail_rate - context.fail_rate)
                      + 3 * (context.code_cleanliness - prev.code_cleanliness)
                      + 200 * info_gain10, 10)

\* Variant: the change of total_changes is divided by 10 but not clamped
compute_reward_Unclamped(context, prev_context) ==
    IF prev_context = None
    THEN 0
    ELSE RoundHalfEven(5 * (prev_context.fail_rate - context.fail_rate)
                       + 3 * (context.code_cleanliness
                              - prev_context.code_cleanliness)
                       + 200 * (context.total_changes
                                - prev_context.total_changes), 10)

\* thousandths; the sum before rounding is in 1e-4
compute_reward(context, prev_context) ==
    IF prev_context = None
    THEN 0
    ELSE LET correctness_change == prev_context.fail_rate - context.fail_rate
             quality_change ==
                 context.code_cleanliness - prev_context.code_cleanliness
             \* info_gain * 10
             info_gain10 ==
                 Min(Max(context.total_changes - prev_context.total_changes, 0),
                     10)
         IN  RoundHalfEven(5 * correctness_change + 3 * quality_change
                           + 200 * info_gain10, 10)

-----------------------------------------------------------------------------
(* Weight updater *)

\* Variant: the gradient step is applied to every action's vector
update_bandit_weights_AllActions(weights, baseline, action, reward, feature_vec) ==
    LET delta == reward * 10 - baseline
    IN  [weight_vectors |->
            [a \in Actions |->
               [i \in 1..NumFeatures |->
                  RoundHalfEven(weights[a][i] * 100 + delta * feature_vec[i],
                                100)]],
         reward_baseline |-> RoundHalfEven(9 * baseline + 10 * reward, 10)]

\* Variant: the baseline is moved first and the step uses the moved baseline
update_bandit_weights_BaselineFirst(weights, baseline, action, reward, feature_vec) ==
    LET moved == RoundHalfEven(9 * baseline + 10 * reward, 10)
        delta == reward * 10 - moved
        w == weights[action]
        updated == [i \in 1..NumFeatures |->
                      RoundHalfEven(w[i] * 100 + delta * feature_vec[i], 100)]
    IN  [weight_vectors |-> [weights EXCEPT ![action] = updated],
         reward_baseline |-> moved]

\* Variant: the updated vector lacks the last component
update_bandit_weights_DropsLast(weights, baseline, action, reward, feature_vec) ==
    LET delta == reward * 10 - baseline
        w == weights[action]
        updated == [i \in 1..(Min(Len(w), Len(feature_vec)) - 1) |->
                      RoundHalfEven(w[i] * 100 + delta * feature_vec[i], 100)]
    IN  [weight_vectors |-> [weights EXCEPT ![action] = updated],
         reward_baseline |-> RoundHalfEven(9 * baseline + 10 * reward, 10)]

\* Variant: the weights move by the reward itself, not by its excess over
\* the baseline
update_bandit_weights_NoBaseline(weights, baseline, action, reward, feature_vec) ==
    LET delta == reward * 10
        w == weights[action]
        updated == [i \in 1..NumFeatures |->
                      RoundHalfEven(w[i] * 100 + delta * feature_vec[i], 100)]
    IN  [weight_vectors |-> [weights EXCEPT ![action] = updated],
         reward_baseline |-> RoundHalfEven(9 * baseline + 10 * reward, 10)]

\* weights: the session's weight dict; baseline in 1e-4; reward in 1e-3.
\* Gives the dict after weights[action] = updated and the new baseline.
update_bandit_weights(weights, baseline, action, reward, feature_vec) ==
    LET delta == reward * 10 - baseline
        w == weights[action]
        \* zip(w, feature_vec) stops at the end of the shorter list
        updated == [i \in 1..Min(Len(w), Len(feature_vec)) |->
                      RoundHalfEven(w[i] * 100 + delta * feature_vec[i], 100)]
    IN  [weight_vectors |-> [weights EXCEPT ![action] = updated],
         reward_baseline |-> RoundHalfEven(9 * baseline + 10 * reward, 10)]

-----------------------------------------------------------------------------
(* Policy metrics tracker *)

\* Intermediate values in thirds of 1e-6 (pause_length / 300 is exact there)
Clamp01(x) == Max(0, Min(3000000, x))

update_policy_metrics(metrics, context, reward) ==
    LET clamped ==
          [k \in MetricNames |->
             IF k = "debugging"
             THEN Clamp01(metrics[k] * 3000 + context.fail_rate * 600)
             ELSE IF k = "refactor"
             THEN Clamp01(metrics[k] * 3000
                          + (700 - context.code_cleanliness) * 450)
             ELSE IF k = "time_factor_optimization"
             THEN Clamp01(metrics[k] * 3000 + context.pause_length * 100)
             ELSE Clamp01(metrics[k] * 3000
                          + (IF context.error_type = "edge_case"
                             THEN 600000 ELSE 0))]
    IN  [k \in MetricNames |-> RoundHalfEven(clamped[k] + reward * 150, 3000)]

-----------------------------------------------------------------------------
(* Scheduling hint *)

\* Variant: the test on the action is made last
schedule_next_evaluation_ActionLast(context, action) ==
    LET base_ms0 == 20000
        base_ms1 == IF context.pause_length > 4500 THEN 8000 ELSE base_ms0
        base_ms2 == IF context.fail_rate = 0 /\ context.code_cleanliness > 800
                    THEN 30000 ELSE base_ms1
        base_ms3 == IF action \in {"strong_hint", "follow_debug"}
                    THEN 12000 ELSE base_ms2
    IN  base_ms3

\* Milliseconds; base_ms is assigned up to three times, the last one wins
schedule_next_evaluation(context, action) ==
    LET base_ms0 == 20000
        base_ms1 == IF action \in {"strong_hint", "follow_debug"}
                    THEN 12000 ELSE base_ms0
        base_ms2 == IF context.pause_length > 4500 THEN 8000 ELSE base_ms1
        base_ms3 == IF context.fail_rate = 0 /\ context.code_cleanliness > 800
                    THEN 30000 ELSE base_ms2
    IN  base_ms3

-----------------------------------------------------------------------------
(* Hint-generation collaborator *)

\* What the awaited call_grok_api and the parsing of its text can come to:
\*   "json"       the text holds a JSON object between its first { and last }
\*   "raises"     call_grok_api raises (no API key, SDK error)
\*   "no_braces"  the text holds no { ... } span
\*   "bad_json"   json.loads raises on the span
CallOutcomes == {"json", "raises", "no_braces", "bad_json"}

FallbackPayload(action) ==
    [action |-> action,
     hint |-> "Take a breath, rerun the failing path, and inspect the inputs causing the issue.",
     followUpQuestion |-> "What test would prove the current fix works for edge cases?",
     confidence |-> 35]

\* The object the language model wrote; its content is the model's own
LlmPayload(action) ==
    [action |-> action,
     hint |-> "llm hint",
     followUpQuestion |-> "llm question",
     confidence |-> 80]

\* Variant: no try/except around the call and the parsing
generate_targeted_hint_Propagates(action, outcome) ==
    IF outcome = "json"
    THEN [raised |-> FALSE, payload |-> LlmPayload(action)]
    ELSE IF outcome = "no_braces"
    THEN [raised |-> FALSE, payload |-> FallbackPayload(action)]
    ELSE [raised |-> TRUE, payload |-> None]

\* Variant: a failed call gives no payload
generate_targeted_hint_NoFallback(action, outcome) ==
    IF outcome = "json"
    THEN [raised |-> FALSE, payload |-> LlmPayload(action)]
    ELSE [raised |-> FALSE, payload |-> None]

\* raised: an exception leaves generate_targeted_hint
generate_targeted_hint(action, outcome) ==
    IF outcome = "json"
    THEN [raised |-> FALSE, payload |-> LlmPayload(action)]
    ELSE [raised |-> FALSE, payload |-> FallbackPayload(action)]

-----------------------------------------------------------------------------
(* Inputs of the requests *)

DifficultyInputs == {"medium"}

FailedAssert == [passed |-> "false", error |-> ErrText(<<"AssertionError">>)]

\* No code yet, nothing run, no pause
CalmStep ==
    [code |-> <<>>, pauseDuration |-> 0, executionAttempts |-> <<>>,
     hintsUsed |-> 0, totalChanges |-> 0]

\* No code yet, one failed run, a pause of five minutes (in milliseconds)
StuckStep ==
    [code |-> <<>>, pauseDuration |-> 300000,
     executionAttempts |-> <<FailedAssert>>,
     hintsUsed |-> 0, totalChanges |-> 0]

\* Code text of one line
OneLineStep ==
    [code |-> <<PlainLine>>, pauseDuration |-> 0, executionAttempts |-> <<>>,
     hintsUsed |-> 0, totalChanges |-> 0]

StepInputs == {CalmStep, StuckStep, OneLineStep}

\* The values of random.choice(ACTION_SPACE) the runs draw; the greedy branch
\* gives the actions that await the hint call
ExploreChoices == {"no_hint"}

-----------------------------------------------------------------------------
(* Session store *)

Init ==
    /\ bandit_sessions = <<>>
    /\ weight_dicts = (DefaultRef :> DEFAULT_ACTION_WEIGHTS)
    /\ metric_dicts = (DefaultRef :> DEFAULT_POLICY_METRICS)
    /\ rl_training_data = <<>>
    /\ pending = <<>>
    /\ nticks = 0
    /\ now = 0
    /\ response = [type |-> "none"]

\* Variant: the session is given DEFAULT_ACTION_WEIGHTS itself
NewWeightsRef_Shared(session_id) == DefaultRef

\* The object that {k: v.copy() for k, v in DEFAULT_ACTION_WEIGHTS.items()}
\* builds: a new dict, named after the session that owns it.  (The lists in it
\* are values in the model: the code never changes a list in place.)
NewWeightsRef(session_id) == session_id

\* Variant: the session is given DEFAULT_POLICY_METRICS itself
NewMetricsRef_Shared(session_id) == DefaultRef

\* The object that DEFAULT_POLICY_METRICS.copy() builds
NewMetricsRef(session_id) == session_id

\* uuid.uuid4(): an id no session has (which one of them is immaterial: the
\* next of SessionIds)
FreshSessionIds ==
    { SessionIds[i] : i \in { j \in 1..Len(SessionIds) :
                                j = Cardinality(DOMAIN bandit_sessions) + 1 } }

\* Variant: starting a session empties the store of the others
start_rl_session_ResetsStore(session_id, difficulty) ==
    LET wref == NewWeightsRef(session_id)
        mref == NewMetricsRef(session_id)
        session ==
            [candidateId |-> "cand",
             difficulty |-> difficulty,
             created_at |-> now,
             expires_at |-> now + SessionLifetime,
             weight_vectors |-> wref,
             policy_metrics |-> mref,
             reward_baseline |-> InitialBaseline,
             history |-> <<>>,
             last_context |-> None]
    IN  /\ session_id \in FreshSessionIds
        /\ bandit_sessions' = (session_id :> session)
        /\ weight_dicts' = (wref :> weight_dicts[DefaultRef]) @@ weight_dicts
        /\ metric_dicts' = (mref :> metric_dicts[DefaultRef]) @@ metric_dicts
        /\ response' = [type |-> "start",
                        sessionId |-> session_id,
                        expiresAt |-> now + SessionLifetime,
                        policyMetrics |-> metric_dicts'[mref],
                        weightVectors |-> weight_dicts'[wref]]
        /\ UNCHANGED <<rl_training_data, pending, nticks, now>>

start_rl_session(session_id, difficulty) ==
    LET wref == NewWeightsRef(session_id)
        mref == NewMetricsRef(session_id)
        session ==
            [candidateId |-> "cand",
             difficulty |-> difficulty,
             created_at |-> now,
             expires_at |-> now + SessionLifetime,
             weight_vectors |-> wref,
             policy_metrics |-> mref,
             reward_baseline |-> InitialBaseline,
             history |-> <<>>,
             last_context |-> None]
    IN  /\ session_id \in FreshSessionIds
        /\ bandit_sessions' = (session_id :> session) @@ bandit_sessions
        /\ weight_dicts' = (wref :> weight_dicts[DefaultRef]) @@ weight_dicts
        /\ metric_dicts' = (mref :> metric_dicts[DefaultRef]) @@ metric_dicts
        /\ response' = [type |-> "start",
                        sessionId |-> session_id,
                        expiresAt |-> now + SessionLifetime,
                        policyMetrics |-> metric_dicts'[mref],
                        weightVectors |-> weight_dicts'[wref]]
        /\ UNCHANGED <<rl_training_data, pending, nticks, now>>

-----------------------------------------------------------------------------
(* Session step *)

\* Variant: an unknown id gets a session made for it on the fly
SessionNotFound_Creates(session_id) ==
    /\ response' = [type |-> "error", status |-> 404, request |-> session_id]
    /\ bandit_sessions' =
          (session_id :> [candidateId |-> "cand",
                          difficulty |-> "medium",
                          created_at |-> now,
                          expires_at |-> now + SessionLifetime,
                          weight_vectors |-> DefaultRef,
                          policy_metrics |-> DefaultRef,
                          reward_baseline |-> InitialBaseline,
                          history |-> <<>>,
                          last_context |-> None]) @@ bandit_sessions
    /\ UNCHANGED <<weight_dicts, metric_dicts, rl_training_data, pending, now>>

\* raise HTTPException(status_code=404, ...) before anything is read or written
SessionNotFound(session_id) ==
    /\ response' = [type |-> "error", status |-> 404, request |-> session_id]
    /\ UNCHANGED <<bandit_sessions, weight_dicts, metric_dicts,
                   rl_training_data, pending, now>>

\* An exception that leaves rl_session_step: the framework answers 500 and
\* the statements after the raising one do not run
StepAborted(session_id, remaining) ==
    /\ response' = [type |-> "error", status |-> 500, request |-> session_id]
    /\ pending' = remaining
    /\ UNCHANGED <<bandit_sessions, weight_dicts, metric_dicts,
                   rl_training_data, now>>

AppendTraining_Replaces(data, record) == <<record>>

\* rl_training_data.append(record): the module-level list every session's
\* steps log to
AppendTraining(data, record) == Append(data, record)

\* Variant: the update is applied to the weights a session starts with, not
\* to those it holds
StepCompletes_FromInitialWeights(frame, hint_payload, outcome, remaining) ==
    LET sid == frame.sid
        session_state == bandit_sessions[sid]
        wref == session_state.weight_vectors
        mref == session_state.policy_metrics
        reward == compute_reward(frame.context, frame.prev_context)
        upd == update_bandit_weights(weight_dicts[DefaultRef],
                                     session_state.reward_baseline,
                                     frame.action, reward, frame.feature_vec)
        heapW == [weight_dicts EXCEPT ![wref] = upd.weight_vectors]
        heapM == [metric_dicts EXCEPT
                    ![mref] = update_policy_metrics(metric_dicts[mref],
                                                    frame.context, reward)]
        record == [context |-> frame.context,
                   action |-> frame.action,
                   reward |-> reward,
                   scores |-> frame.scores,
                   hint |-> hint_payload,
                   weights |-> heapW[wref][frame.action],
                   featureVector |-> frame.feature_vec]
        \* policyMetrics and weightVectors hold the session's own dict
        \* objects, not copies of them
        training == [type |-> "online_bandit_step",
                     sessionId |-> sid,
                     candidateId |-> session_state.candidateId,
                     context |-> frame.context,
                     action |-> frame.action,
                     reward |-> reward,
                     policyMetrics |-> mref,
                     featureVector |-> frame.feature_vec,
                     weightVectors |-> wref]
    IN  /\ weight_dicts' = heapW
        /\ metric_dicts' = heapM
        /\ bandit_sessions' =
              [bandit_sessions EXCEPT
                  ![sid].reward_baseline = upd.reward_baseline,
                  ![sid].last_context = frame.context,
                  ![sid].history = Append(@, record)]
        /\ rl_training_data' = AppendTraining(rl_training_data, training)
        /\ pending' = remaining
        /\ response' =
              [type |-> "step",
               status |-> 200,
               request |-> sid,
               callOutcome |-> outcome,
               sessionId |-> sid,
               action |-> frame.action,
               hint |-> hint_payload,
               contextFeatures |-> frame.context,
               policyMetrics |-> heapM[mref],
               rewardApplied |-> reward,
               scores |-> frame.scores,
               nextEvaluationMs |-> schedule_next_evaluation(frame.context,
                                                             frame.action),
               sessionExpired |-> now > session_state.expires_at]
        /\ UNCHANGED now

\* Variant: the scores of the answer are computed again after the updates
StepCompletes_ScoresAfterUpdate(frame, hint_payload, outcome, remaining) ==
    LET sid == frame.sid
        session_state == bandit_sessions[sid]
        wref == session_state.weight_vectors
        mref == session_state.policy_metrics
        reward == compute_reward(frame.context, frame.prev_context)
        upd == update_bandit_weights(weight_dicts[wref],
                                     session_state.reward_baseline,
                                     frame.action, reward, frame.feature_vec)
        heapW == [weight_dicts EXCEPT ![wref] = upd.weight_vectors]
        heapM == [metric_dicts EXCEPT
                    ![mref] = update_policy_metrics(metric_dicts[mref],
                                                    frame.context, reward)]
        record == [context |-> frame.context,
                   action |-> frame.action,
                   reward |-> reward,
                   scores |-> frame.scores,
                   hint |-> hint_payload,
                   weights |-> heapW[wref][frame.action],
                   featureVector |-> frame.feature_vec]
        \* policyMetrics and weightVectors hold the session's own dict
        \* objects, not copies of them
        training == [type |-> "online_bandit_step",
                     sessionId |-> sid,
                     candidateId |-> session_state.candidateId,
                     context |-> frame.context,
                     action |-> frame.action,
                     reward |-> reward,
                     policyMetrics |-> mref,
                     featureVector |-> frame.feature_vec,
                     weightVectors |-> wref]
    IN  /\ weight_dicts' = heapW
        /\ metric_dicts' = heapM
        /\ bandit_sessions' =
              [bandit_sessions EXCEPT
                  ![sid].reward_baseline = upd.reward_baseline,
                  ![sid].last_context = frame.context,
                  ![sid].history = Append(@, record)]
        /\ rl_training_data' = AppendTraining(rl_training_data, training)
        /\ pending' = remaining
        /\ response' =
              [type |-> "step",
               status |-> 200,
               request |-> sid,
               callOutcome |-> outcome,
               sessionId |-> sid,
               action |-> frame.action,
               hint |-> hint_payload,
               contextFeatures |-> frame.context,
               policyMetrics |-> heapM[mref],
               rewardApplied |-> reward,
               scores |-> select_bandit_action(heapW[wref], heapM[mref],
                                               frame.context,
                                               frame.feature_vec,
                                               FALSE, frame.action).scores,
               nextEvaluationMs |-> schedule_next_evaluation(frame.context,
                                                             frame.action),
               sessionExpired |-> now > session_state.expires_at]
        /\ UNCHANGED now

\* Variant: only the first tick of a session stores its context
StepCompletes_KeepsFirstContext(frame, hint_payload, outcome, remaining) ==
    LET sid == frame.sid
        session_state == bandit_sessions[sid]
        wref == session_state.weight_vectors
        mref == session_state.policy_metrics
        reward == compute_reward(frame.context, frame.prev_context)
        upd == update_bandit_weights(weight_dicts[wref],
                                     session_state.reward_baseline,
                                     frame.action, reward, frame.feature_vec)
        heapW == [weight_dicts EXCEPT ![wref] = upd.weight_vectors]
        heapM == [metric_dicts EXCEPT
                    ![mref] = update_policy_metrics(metric_dicts[mref],
                                                    frame.context, reward)]
        record == [context |-> frame.context,
                   action |-> frame.action,
                   reward |-> reward,
                   scores |-> frame.scores,
                   hint |-> hint_payload,
                   weights |-> heapW[wref][frame.action],
                   featureVector |-> frame.feature_vec]
        \* policyMetrics and weightVectors hold the session's own dict
        \* objects, not copies of them
        training == [type |-> "online_bandit_step",
                     sessionId |-> sid,
                     candidateId |-> session_state.candidateId,
                     context |-> frame.context,
                     action |-> frame.action,
                     reward |-> reward,
                     policyMetrics |-> mref,
                     featureVector |-> frame.feature_vec,
                     weightVectors |-> wref]
    IN  /\ weight_dicts' = heapW
        /\ metric_dicts' = heapM
        /\ bandit_sessions' =
              [bandit_sessions EXCEPT
                  ![sid].reward_baseline = upd.reward_baseline,
                  ![sid].last_context = IF @ = None THEN frame.context ELSE @,
                  ![sid].history = Append(@, record)]
        /\ rl_training_data' = AppendTraining(rl_training_data, training)
        /\ pending' = remaining
        /\ response' =
              [type |-> "step",
               status |-> 200,
               request |-> sid,
               callOutcome |-> outcome,
               sessionId |-> sid,
               action |-> frame.action,
               hint |-> hint_payload,
               contextFeatures |-> frame.context,
               policyMetrics |-> heapM[mref],
               rewardApplied |-> reward,
               scores |-> frame.scores,
               nextEvaluationMs |-> schedule_next_evaluation(frame.context,
                                                             frame.action),
               sessionExpired |-> now > session_state.expires_at]
        /\ UNCHANGED now

\* Variant: a tick on an expired session answers and changes nothing of the
\* session
StepCompletes_ExpiredReadOnly(frame, hint_payload, outcome, remaining) ==
    LET sid == frame.sid
        session_state == bandit_sessions[sid]
        wref == session_state.weight_vectors
        mref == session_state.policy_metrics
        reward == compute_reward(frame.context, frame.prev_context)
        upd == update_bandit_weights(weight_dicts[wref],
                                     session_state.reward_baseline,
                                     frame.action, reward, frame.feature_vec)
        heapW == [weight_dicts EXCEPT ![wref] = upd.weight_vectors]
        heapM == [metric_dicts EXCEPT
                    ![mref] = update_policy_metrics(metric_dicts[mref],
                                                    frame.context, reward)]
        record == [context |-> frame.context,
                   action |-> frame.action,
                   reward |-> reward,
                   scores |-> frame.scores,
                   hint |-> hint_payload,
                   weights |-> heapW[wref][frame.action],
                   featureVector |-> frame.feature_vec]
        \* policyMetrics and weightVectors hold the session's own dict
        \* objects, not copies of them
        training == [type |-> "online_bandit_step",
                     sessionId |-> sid,
                     candidateId |-> session_state.candidateId,
                     context |-> frame.context,
                     action |-> frame.action,
                     reward |-> reward,
                     policyMetrics |-> mref,
                     featureVector |-> frame.feature_vec,
                     weightVectors |-> wref]
        expired == now > session_state.expires_at
    IN  /\ weight_dicts' = IF expired THEN weight_dicts ELSE heapW
        /\ metric_dicts' = IF expired THEN metric_dicts ELSE heapM
        /\ bandit_sessions' =
              IF expired THEN bandit_sessions
              ELSE [bandit_sessions EXCEPT
                       ![sid].reward_baseline = upd.reward_baseline,
                       ![sid].last_context = frame.context,
                       ![sid].history = Append(@, record)]
        /\ rl_training_data' = AppendTraining(rl_training_data, training)
        /\ pending' = remaining
        /\ response' =
              [type |-> "step",
               status |-> 200,
               request |-> sid,
               callOutcome |-> outcome,
               sessionId |-> sid,
               action |-> frame.action,
               hint |-> hint_payload,
               contextFeatures |-> frame.context,
               policyMetrics |-> heapM[mref],
               rewardApplied |-> reward,
               scores |-> frame.scores,
               nextEvaluationMs |-> schedule_next_evaluation(frame.context,
                                                             frame.action),
               sessionExpired |-> now > session_state.expires_at]
        /\ UNCHANGED now

\* The part of rl_session_step after the hint-generation call: reward, weight
\* update, metric update, last_context, history, training data, response.
\* frame holds the locals computed before the call; outcome is what the call
\* came to ("not_called" for no_hint); remaining is the set of suspended ticks
\* this one leaves behind.
StepCompletes(frame, hint_payload, outcome, remaining) ==
    LET sid == frame.sid
        session_state == bandit_sessions[sid]
        wref == session_state.weight_vectors
        mref == session_state.policy_metrics
        reward == compute_reward(frame.context, frame.prev_context)
        upd == update_bandit_weights(weight_dicts[wref],
                                     session_state.reward_baseline,
                                     frame.action, reward, frame.feature_vec)
        heapW == [weight_dicts EXCEPT ![wref] = upd.weight_vectors]
        heapM == [metric_dicts EXCEPT
                    ![mref] = update_policy_metrics(metric_dicts[mref],
                                                    frame.context, reward)]
        record == [context |-> frame.context,
                   action |-> frame.action,
                   reward |-> reward,
                   scores |-> frame.scores,
                   hint |-> hint_payload,
                   weights |-> heapW[wref][frame.action],
                   featureVector |-> frame.feature_vec]
        \* policyMetrics and weightVectors hold the session's own dict
        \* objects, not copies of them
        training == [type |-> "online_bandit_step",
                     sessionId |-> sid,
                     candidateId |-> session_state.candidateId,
                     context |-> frame.context,
                     action |-> frame.action,
                     reward |-> reward,
                     policyMetrics |-> mref,
                     featureVector |-> frame.feature_vec,
                     weightVectors |-> wref]
    IN  /\ weight_dicts' = heapW
        /\ metric_dicts' = heapM
        /\ bandit_sessions' =
              [bandit_sessions EXCEPT
                  ![sid].reward_baseline = upd.reward_baseline,
                  ![sid].last_context = frame.context,
                  ![sid].history = Append(@, record)]
        /\ rl_training_data' = AppendTraining(rl_training_data, training)
        /\ pending' = remaining
        /\ response' =
              [type |-> "step",
               status |-> 200,
               request |-> sid,
               callOutcome |-> outcome,
               sessionId |-> sid,
               action |-> frame.action,
               hint |-> hint_payload,
               contextFeatures |-> frame.context,
               policyMetrics |-> heapM[mref],
               rewardApplied |-> reward,
               scores |-> frame.scores,
               nextEvaluationMs |-> schedule_next_evaluation(frame.context,
                                                             frame.action),
               sessionExpired |-> now > session_state.expires_at]
        /\ UNCHANGED now

Without(f, k) == [x \in (DOMAIN f) \ {k} |-> f[x]]

\* rl_session_step from its first line to its first suspension point (the
\* await of generate_targeted_hint) or, when the action is no_hint, to its end
StepRequest(session_id, step, explore, choice) ==
    /\ nticks < MaxTicks
    /\ nticks' = nticks + 1
    /\ IF session_id \notin DOMAIN bandit_sessions
       THEN SessionNotFound(session_id)
       ELSE LET session_state == bandit_sessions[session_id]
                built == build_context_features(step, session_state)
            IN  IF built.raised
                THEN StepAborted(session_id, pending)
                ELSE LET context == built.context
                         prev_context == session_state.last_context
                         feature_vec == feature_vector_from_context(context)
                         sel == select_bandit_action(
                                    weight_dicts[session_state.weight_vectors],
                                    metric_dicts[session_state.policy_metrics],
                                    context, feature_vec, explore, choice)
                         frame == [sid |-> session_id,
                                   context |-> context,
                                   prev_context |-> prev_context,
                                   feature_vec |-> feature_vec,
                                   action |-> sel.chosen,
                                   scores |-> sel.scores,
                                   call |-> "awaiting"]
                     IN  IF sel.chosen = "no_hint"
                         THEN StepCompletes(frame, None, "not_called", pending)
                         ELSE /\ pending' = (nticks + 1 :> frame) @@ pending
                              /\ response' = [type |-> "suspended",
                                              request |-> session_id]
                              /\ UNCHANGED <<bandit_sessions, weight_dicts,
                                             metric_dicts, rl_training_data,
                                             now>>

\* The awaited call of a suspended tick is over: the collaborator answered
\* or the SDK call failed.  Nothing in the code bounds the wait for it.
GrokReturns(tick) ==
    /\ tick \in DOMAIN pending
    /\ pending[tick].call = "awaiting"
    /\ pending' = [pending EXCEPT ![tick].call = "returned"]
    /\ response' = [type |-> "none"]
    /\ UNCHANGED <<bandit_sessions, weight_dicts, metric_dicts,
                   rl_training_data, nticks, now>>

\* The event loop resumes the coroutine: rl_session_step from the return of
\* generate_targeted_hint to its end.  outcome is what the call came to.
StepResume(tick, outcome) ==
    /\ tick \in DOMAIN pending
    /\ pending[tick].call = "returned"
    /\ UNCHANGED nticks
    /\ LET frame == pending[tick]
           hinted == generate_targeted_hint(frame.action, outcome)
       IN  IF hinted.raised
           THEN StepAborted(frame.sid, Without(pending, tick))
           ELSE StepCompletes(frame, hinted.payload, outcome,
                              Without(pending, tick))

\* Time passes: one advance takes a session started before it past its expiry.
\* The code reads the clock only to stamp a session and to compare it with a
\* session's expiry, so time that passes before the first session starts
\* shifts every later reading alike and is left out.
AdvanceClock ==
    /\ bandit_sessions # <<>>
    /\ now < MaxClock * (SessionLifetime + 1)
    /\ now' = now + SessionLifetime + 1
    /\ response' = [type |-> "none"]
    /\ UNCHANGED <<bandit_sessions, weight_dicts, metric_dicts,
                   rl_training_data, pending, nticks>>

StartSession == \E sid \in FreshSessionIds, d \in DifficultyInputs :
                    start_rl_session(sid, d)

\* random.choice is drawn only when random.random() < epsilon
Step == \E sid \in DOMAIN bandit_sessions, step \in StepInputs :
            \/ \E choice \in ExploreChoices : StepRequest(sid, step, TRUE, choice)
            \/ StepRequest(sid, step, FALSE, ACTION_SPACE[1])

\* A step request whose session id is not in the store
StepUnknown == \E sid \in UnknownIds \ DOMAIN bandit_sessions :
                   StepRequest(sid, CalmStep, FALSE, ACTION_SPACE[1])

CallDone == \E tick \in DOMAIN pending : GrokReturns(tick)

Resume == \E tick \in DOMAIN pending, outcome \in CallOutcomes :
              StepResume(tick, outcome)

Next == StartSession \/ Step \/ StepUnknown \/ CallDone \/ Resume

Spec == Init /\ [][Next]_vars

\* A client that waits for the answer to a step before it sends the next one
\* of the same session
StepInTurn == \E sid \in DOMAIN bandit_sessions, step \in StepInputs :
                  /\ \A tick \in DOMAIN pending : pending[tick].sid # sid
                  /\ \/ \E choice \in ExploreChoices :
                           StepRequest(sid, step, TRUE, choice)
                     \/ StepRequest(sid, step, FALSE, ACTION_SPACE[1])

NextInTurn == StartSession \/ StepInTurn \/ StepUnknown \/ CallDone \/ Resume

SpecInTurn == Init /\ [][NextInTurn]_vars

NextClock == Next \/ AdvanceClock

SpecClock == Init /\ [][NextClock]_vars

\* The event loop runs every coroutine whose awaited call is done; whether the
\* collaborator ever answers is not the program's to decide
FairSpec == Spec /\ WF_vars(Resume)

-----------------------------------------------------------------------------
(* The pure functions of the feature extractor and of the policy, applied to
   inputs drawn from bounded sets.  Each evaluation starts from the initial
   state and leaves its arguments and its result in response. *)

\* Longest executionAttempts list of an evaluated step
MaxAttempts == 2

\* The "passed" entry of an attempt record: missing, true or false
PassedValues == {"absent", "true", "false"}

\* The "error" entry: missing, null, "" or a text of each error category
ErrorValues ==
    {ErrAbsent, ErrNull, ErrText(<<>>), ErrText(<<"SyntaxError">>),
     ErrText(<<"Timeout">>), ErrText(<<"AssertionError">>)}

AttemptShapes == [passed : PassedValues, error : ErrorValues]

AttemptLists == UNION {[1..n -> AttemptShapes] : n \in 0..MaxAttempts}

\* Steps with no code or one line of code, no pause or a pause of 50 s
ContextSteps ==
    [code : {<<>>, <<PlainLine>>}, pauseDuration : {0, 50000},
     executionAttempts : AttemptLists, hintsUsed : {0}, totalChanges : {0}]

\* context = build_context_features(...) and
\* feature_vec = feature_vector_from_context(context), as rl_session_step
\* computes them
\* Steps that report a long series of runs of which only the last failed:
\* one failure in 1999 runs and one in 2001
LongRunSteps ==
    {[code |-> <<>>, pauseDuration |-> 0,
      executionAttempts |->
         [i \in 1..n |->
             IF i = n THEN [passed |-> "false",
                            error |-> ErrText(<<"AssertionError">>)]
             ELSE [passed |-> "true", error |-> ErrAbsent]],
      hintsUsed |-> 0, totalChanges |-> 0] : n \in {1999, 2001}}

EvalContext ==
    /\ response.type = "none"
    /\ \E step \in ContextSteps \cup LongRunSteps, d \in DifficultyInputs :
          LET built == build_context_features(step, [difficulty |-> d])
          IN  response' =
                 IF built.raised
                 THEN [type |-> "context_error", step |-> step]
                 ELSE [type |-> "context", step |-> step,
                       context |-> built.context,
                       feature_vec |->
                          feature_vector_from_context(built.context)]
    /\ UNCHANGED <<bandit_sessions, weight_dicts, metric_dicts,
                   rl_training_data, pending, nticks, now>>

\* Attempt records: a failed run that reports no error text, a passed run
FailedSilent == [passed |-> "false", error |-> ErrAbsent]
PassedRun == [passed |-> "true", error |-> ErrAbsent]

ProbeAttempts ==
    {<<>>, <<FailedSilent, PassedRun>>, <<FailedAssert, PassedRun>>,
     <<FailedAssert>>}

\* Steps with no code: no pause or a pause of 30 s or 50 s, no hint or two
\* hints used so far, six changes so far
ProbeSteps ==
    [code : {<<>>}, pauseDuration : {0, 30000, 50000},
     executionAttempts : ProbeAttempts, hintsUsed : {0, 2}, totalChanges : {6}]

ContextOf(step) == build_context_features(step, [difficulty |-> "medium"]).context

ProbeContexts == {ContextOf(step) : step \in ProbeSteps}

\* The bandit part of a session record as start_rl_session leaves it
FreshSession ==
    [weight_vectors |-> DEFAULT_ACTION_WEIGHTS,
     policy_metrics |-> DEFAULT_POLICY_METRICS,
     reward_baseline |-> InitialBaseline,
     last_context |-> None]

\* The bandit part of a session record after a tick with the given context
\* and chosen action
SessionAfter(session_state, context, action) ==
    LET reward == compute_reward(context, session_state.last_context)
        upd == update_bandit_weights(session_state.weight_vectors,
                                     session_state.reward_baseline, action,
                                     reward, feature_vector_from_context(context))
    IN  [weight_vectors |-> upd.weight_vectors,
         policy_metrics |-> update_policy_metrics(session_state.policy_metrics,
                                                  context, reward),
         reward_baseline |-> upd.reward_baseline,
         last_context |-> context]

\* A session after two ticks: a calm one that drew no_hint, then one with a
\* silent failure and six changes that drew edge_case_followup
SeasonedSession ==
    SessionAfter(SessionAfter(FreshSession, ContextOf(CalmStep), "no_hint"),
                 ContextOf([code |-> <<>>, pauseDuration |-> 0,
                            executionAttempts |-> <<FailedSilent, PassedRun>>,
                            hintsUsed |-> 0, totalChanges |-> 6]),
                 "edge_case_followup")

ProbeSessions == {FreshSession, SeasonedSession}

\* action, scores = select_bandit_action(session_state, context, feature_vec)
EvalSelect ==
    /\ response.type = "none"
    /\ \E session_state \in ProbeSessions, context \in ProbeContexts,
          explore \in BOOLEAN, choice \in Actions :
          /\ ~explore => choice = ACTION_SPACE[1]
          /\ LET feature_vec == feature_vector_from_context(context)
                 sel == select_bandit_action(session_state.weight_vectors,
                                             session_state.policy_metrics,
                                             context, feature_vec, explore,
                                             choice)
             IN  response' = [type |-> "select",
                              weights |-> session_state.weight_vectors,
                              policy_metrics |-> session_state.policy_metrics,
                              context |-> context,
                              feature_vec |-> feature_vec,
                              explore |-> explore,
                              chosen |-> sel.chosen,
                              scores |-> sel.scores]
    /\ UNCHANGED <<bandit_sessions, weight_dicts, metric_dicts,
                   rl_training_data, pending, nticks, now>>

\* Arguments of action_bias on either side of each of its thresholds: pause
\* (1e-2 s) around 20 s and 40 s, failure rate and cleanliness (1e-3) around
\* 0.5 and 0.6, hints used around 2, the optimization metric around 0.35
BiasContexts ==
    [pause_length : {0, 2000, 2001, 4000, 4001, 6000},
     code_cleanliness : {0, 599, 600, 1000},
     fail_rate : {0, 499, 500, 1000},
     error_type : {"none", "syntax", "runtime", "edge_case", "timeout"},
     difficulty : {"medium"},
     hints_used : {0, 1, 2},
     total_changes : {0}]

BiasMetrics ==
    {[DEFAULT_POLICY_METRICS EXCEPT !["time_factor_optimization"] = v] :
        v \in {0, 350, 351, 1000}}

\* action_bias(action, context, policy_metrics) for each action
EvalBias ==
    /\ response.type = "none"
    /\ \E context \in BiasContexts, policy_metrics \in BiasMetrics :
          response' = [type |-> "bias",
                       context |-> context,
                       policy_metrics |-> policy_metrics,
                       bias |-> [a \in Actions |->
                                   action_bias(a, context, policy_metrics)]]
    /\ UNCHANGED <<bandit_sessions, weight_dicts, metric_dicts,
                   rl_training_data, pending, nticks, now>>

\* Sessions after no tick, two ticks and three ticks
UpdateSessions ==
    ProbeSessions
    \cup {SessionAfter(SeasonedSession, context, "strong_hint") :
             context \in ProbeContexts}

\* reward = compute_reward(context, prev_context) and
\* update_bandit_weights(session_state, action, reward, feature_vec), as
\* rl_session_step calls them
EvalUpdate ==
    /\ response.type = "none"
    /\ \E session_state \in UpdateSessions, context \in ProbeContexts,
          action \in Actions :
          LET feature_vec == feature_vector_from_context(context)
              reward == compute_reward(context, session_state.last_context)
              upd == update_bandit_weights(session_state.weight_vectors,
                                           session_state.reward_baseline,
                                           action, reward, feature_vec)
          IN  response' = [type |-> "update",
                           before |-> session_state,
                           context |-> context,
                           feature_vec |-> feature_vec,
                           action |-> action,
                           reward |-> reward,
                           after |-> upd]
    /\ UNCHANGED <<bandit_sessions, weight_dicts, metric_dicts,
                   rl_training_data, pending, nticks, now>>

\* The entries of a context that compute_reward reads: failure rate and
\* cleanliness (1e-3) and the count of changes
RewardContexts ==
    [fail_rate : {0, 333, 1000}, code_cleanliness : {0, 550, 1000},
     total_changes : {0, 3, 10, 25}]

\* reward = compute_reward(context, prev_context)
EvalReward ==
    /\ response.type = "none"
    /\ \E context \in RewardContexts, prev_context \in RewardContexts \cup {None} :
          response' = [type |-> "reward",
                       context |-> context,
                       prev_context |-> prev_context,
                       reward |-> compute_reward(context, prev_context)]
    /\ UNCHANGED <<bandit_sessions, weight_dicts, metric_dicts,
                   rl_training_data, pending, nticks, now>>

\* Contexts on either side of the three tests of schedule_next_evaluation
ScheduleContexts ==
    [pause_length : {0, 4500, 4501, 9000},
     fail_rate : {0, 1, 500},
     code_cleanliness : {0, 800, 801, 1000}]

\* One evaluation of schedule_next_evaluation
EvalSchedule ==
    /\ response.type = "none"
    /\ \E context \in ScheduleContexts, action \in Actions :
          response' = [type |-> "schedule",
                       context |-> context,
                       action |-> action,
                       next_eval_ms |-> schedule_next_evaluation(context, action)]
    /\ UNCHANGED <<bandit_sessions, weight_dicts, metric_dicts,
                   rl_training_data, pending, nticks, now>>

\* Longest error text of an evaluation of categorize_error, in words
MaxWords == 2

\* Words of an error text: one or two spellings of each marker, a word that
\* holds none
ErrorWords ==
    {"SyntaxError", "ParseError", "Timeout", "TIMEOUT", "AssertionError",
     "expected", "TypeError", "boom"}

ErrorTexts == UNION {[1..n -> ErrorWords] : n \in 0..MaxWords}

\* One evaluation of categorize_error
EvalCategorize ==
    /\ response.type = "none"
    /\ \E err_msg \in ErrorTexts :
          response' = [type |-> "categorize",
                       err_msg |-> err_msg,
                       category |-> categorize_error(err_msg)]
    /\ UNCHANGED <<bandit_sessions, weight_dicts, metric_dicts,
                   rl_training_data, pending, nticks, now>>

\* Steps with no code whose pause is below 0, within the minute or beyond it
\* (thousandths of the unit of pauseDuration) and with up to four hints used
FeatureSteps ==
    [code : {<<>>}, pauseDuration : {-30000, 0, 30000, 60000, 90000},
     executionAttempts : {<<>>, <<FailedAssert>>}, hintsUsed : 0..4,
     totalChanges : {0}]

\* Difficulty levels of a session: the three known ones and another
FeatureDifficulties == {"easy", "medium", "hard", "expert"}

\* The context and the feature vector of a step of a session of each
\* difficulty
EvalFeatures ==
    /\ response.type = "none"
    /\ \E step \in FeatureSteps, d \in FeatureDifficulties :
          LET context == build_context_features(step, [difficulty |-> d]).context
          IN  response' = [type |-> "features",
                           step |-> step,
                           context |-> context,
                           feature_vec |-> feature_vector_from_context(context)]
    /\ UNCHANGED <<bandit_sessions, weight_dicts, metric_dicts,
                   rl_training_data, pending, nticks, now>>

PureNext ==
    \/ EvalContext
    \/ EvalSelect
    \/ EvalBias
    \/ EvalUpdate
    \/ EvalReward
    \/ EvalSchedule
    \/ EvalCategorize
    \/ EvalFeatures

PureSpec == Init /\ [][PureNext]_vars

-----------------------------------------------------------------------------
(* Properties *)

\* The value of a session's weight dict and of its metric dict
WeightsOf(sid) == weight_dicts[bandit_sessions[sid].weight_vectors]
MetricsOf(sid) == metric_dicts[bandit_sessions[sid].policy_metrics]

\* C1 - Weight isolation: a completed step with chosen action A leaves the
\* weight vector of every action other than A, in every weight dict, exactly
\* as it was.
C1_WeightIsolation ==
    [][response'.type = "step" =>
         \A r \in DOMAIN weight_dicts :
            \A a \in Actions \ {response'.action} :
               weight_dicts'[r][a] = weight_dicts[r][a]]_vars

\* A session that took one step: the vector of the action it chose moved off
\* its prior and the six others are at their priors
C1_Witness ==
    \E sid \in DOMAIN bandit_sessions :
       /\ Len(bandit_sessions[sid].history) = 1
       /\ LET a == bandit_sessions[sid].history[1].action
          IN  /\ WeightsOf(sid)[a] # DEFAULT_ACTION_WEIGHTS[a]
              /\ \A b \in Actions \ {a} :
                    WeightsOf(sid)[b] = DEFAULT_ACTION_WEIGHTS[b]

\* C2 - Ticks of one session are serialized: the reward of every completed
\* step is the reward of its context against the context the session holds
\* when the step completes, that of the tick processed immediately before it.
C2_TicksSerialized ==
    [][response'.type = "step" =>
         response'.rewardApplied =
            compute_reward(response'.contextFeatures,
                           bandit_sessions[response'.sessionId].last_context)]_vars

\* C3 - Policy-metric clamp: every policy metric of every metric dict is in
\* [0, 1] (0..1000 thousandths) in every reachable state.
C3_MetricsClamped ==
    \A r \in DOMAIN metric_dicts :
       \A k \in MetricNames :
          metric_dicts[r][k] >= 0 /\ metric_dicts[r][k] <= 1000

\* C4 - Reward cold start: the first tick record of every session carries
\* reward 0, whatever its context.
C4_RewardColdStart ==
    \A sid \in DOMAIN bandit_sessions :
       Len(bandit_sessions[sid].history) >= 1 =>
          bandit_sessions[sid].history[1].reward = 0

\* A first tick whose context has a failure rate of 1 was given reward 0
C4_Witness ==
    \E sid \in DOMAIN bandit_sessions :
       /\ Len(bandit_sessions[sid].history) >= 1
       /\ bandit_sessions[sid].history[1].context.fail_rate = 1000
       /\ bandit_sessions[sid].history[1].reward = 0

\* C5 - SessionNotFound: a step request whose session id is not in the store
\* is answered 404 and changes neither the store, the weight and metric
\* dicts, the training data nor the suspended ticks.
C5_NotFoundChangesNothing ==
    [][(nticks' = nticks + 1 /\ response'.request \notin DOMAIN bandit_sessions)
         => /\ response'.type = "error"
            /\ response'.status = 404
            /\ UNCHANGED <<bandit_sessions, weight_dicts, metric_dicts,
                           rl_training_data, pending>>]_vars

\* A 404 was answered while a session with a tick record exists
C5_Witness ==
    /\ response.type = "error"
    /\ response.status = 404
    /\ \E sid \in DOMAIN bandit_sessions :
          Len(bandit_sessions[sid].history) >= 1

FailedOutcomes == {"raises", "no_braces", "bad_json"}

\* C6 - Collaborator failure is recovered locally: every tick that leaves the
\* hint-generation call completes with a normal response; when the call
\* raised or gave unparseable text the payload is the fixed fallback
\* (confidence 0.35); and reward, weight update, baseline, metric update,
\* last context, history and training data are those computed from the tick's
\* own locals, whatever the call came to.
C6_CollaboratorFailureRecovered ==
    [][\A t \in DOMAIN pending :
          t \notin DOMAIN pending' =>
             LET f == pending[t]
                 old == bandit_sessions[f.sid]
                 new == bandit_sessions'[f.sid]
                 reward == compute_reward(f.context, f.prev_context)
                 upd == update_bandit_weights(weight_dicts[old.weight_vectors],
                                              old.reward_baseline, f.action,
                                              reward, f.feature_vec)
             IN  /\ response'.type = "step"
                 /\ response'.status = 200
                 /\ response'.callOutcome \in FailedOutcomes =>
                       /\ response'.hint = FallbackPayload(f.action)
                       /\ response'.hint.confidence = 35
                 /\ response'.rewardApplied = reward
                 /\ weight_dicts'[old.weight_vectors] = upd.weight_vectors
                 /\ new.reward_baseline = upd.reward_baseline
                 /\ metric_dicts'[old.policy_metrics] =
                       update_policy_metrics(metric_dicts[old.policy_metrics],
                                             f.context, reward)
                 /\ new.last_context = f.context
                 /\ Len(new.history) = Len(old.history) + 1
                 /\ new.history[Len(new.history)].hint = response'.hint
                 /\ new.history[Len(new.history)].reward = reward
                 /\ Len(rl_training_data') = Len(rl_training_data) + 1]_vars

\* A step whose hint call failed returned the fallback payload and left its
\* tick record in the history
C6_Witness ==
    /\ response.type = "step"
    /\ response.callOutcome \in FailedOutcomes
    /\ response.hint = FallbackPayload(response.action)
    /\ LET h == bandit_sessions[response.sessionId].history
       IN  /\ Len(h) >= 1
           /\ h[Len(h)].hint = FallbackPayload(response.action)
           /\ h[Len(h)].action = response.action

\* C7 - The bandit loop never stalls: every tick suspended in the
\* hint-generation call eventually completes.
C7_NeverStalls ==
    \A t \in 1..MaxTicks :
       (t \in DOMAIN pending) ~> (t \notin DOMAIN pending)

\* C8 - The only caller-visible error of a step is session-not-found: an
\* error response is a 404 for a session id that is not in the store.
C8_OnlyErrorIsNotFound ==
    response.type = "error" =>
       /\ response.status = 404
       /\ response.request \notin DOMAIN bandit_sessions

\* C9 - Session-start independence: a start gives an id no session has and
\* weight and metric dicts that are objects of their own, distinct from the
\* defaults and from every other session's; the default dicts keep their
\* values; and a completed step of one session leaves the weights and metrics
\* of every other session as they were.
C9_StartIndependence ==
    [][/\ weight_dicts'[DefaultRef] = DEFAULT_ACTION_WEIGHTS
       /\ metric_dicts'[DefaultRef] = DEFAULT_POLICY_METRICS
       /\ response'.type = "start" =>
             LET new == bandit_sessions'[response'.sessionId]
             IN  /\ response'.sessionId \notin DOMAIN bandit_sessions
                 /\ new.weight_vectors # DefaultRef
                 /\ new.policy_metrics # DefaultRef
                 /\ \A s \in DOMAIN bandit_sessions :
                       /\ new.weight_vectors # bandit_sessions[s].weight_vectors
                       /\ new.policy_metrics # bandit_sessions[s].policy_metrics
       /\ response'.type = "step" =>
             \A s \in DOMAIN bandit_sessions \ {response'.sessionId} :
                /\ weight_dicts'[bandit_sessions'[s].weight_vectors] = WeightsOf(s)
                /\ metric_dicts'[bandit_sessions'[s].policy_metrics] = MetricsOf(s)
      ]_vars

\* Two sessions: one has stepped and its weights and metrics have moved, the
\* other has not and its weights and metrics are the defaults
C9_Witness ==
    \E s1 \in DOMAIN bandit_sessions, s2 \in DOMAIN bandit_sessions :
       /\ s1 # s2
       /\ Len(bandit_sessions[s1].history) >= 1
       /\ WeightsOf(s1) # DEFAULT_ACTION_WEIGHTS
       /\ MetricsOf(s1) # DEFAULT_POLICY_METRICS
       /\ Len(bandit_sessions[s2].history) = 0
       /\ WeightsOf(s2) = DEFAULT_ACTION_WEIGHTS
       /\ MetricsOf(s2) = DEFAULT_POLICY_METRICS

\* C10 - Cross-session independence: whatever a step request or the
\* resumption of a suspended tick of one session does, the session record
\* (baseline, history, last context), the weights and the metrics of every
\* other session stay as they were.
C10_CrossSessionIndependence ==
    [][response'.type \in {"step", "suspended", "error"} =>
          \A s \in DOMAIN bandit_sessions \ {response'.request} :
             /\ bandit_sessions'[s] = bandit_sessions[s]
             /\ weight_dicts'[bandit_sessions'[s].weight_vectors] = WeightsOf(s)
             /\ metric_dicts'[bandit_sessions'[s].policy_metrics] = MetricsOf(s)
      ]_vars

\* The first tick is still suspended in the hint call while another session
\* has completed a tick that began after it
C10_Witness ==
    /\ 1 \in DOMAIN pending
    /\ \E s \in DOMAIN bandit_sessions :
          /\ s # pending[1].sid
          /\ Len(bandit_sessions[s].history) = 1

\* C11 - No cross-session shared mutable state, as stated: no mutable
\* structure is written by the steps of two different sessions, so the
\* records of the training-data list all come from one session.
C11_NoStructureWrittenByTwoSessions ==
    \A i \in DOMAIN rl_training_data, j \in DOMAIN rl_training_data :
       rl_training_data[i].sessionId = rl_training_data[j].sessionId

\* C11 - amended: a completed step of session S writes the session record of
\* S, the weight dict and the metric dict that S alone refers to, and the
\* module-level training-data list, to which it appends one record carrying
\* the id of S and keeping every earlier record; it writes nothing else.
C11_StepWritesOwnStateAndLog ==
    [][response'.type = "step" =>
         LET sid == response'.sessionId
             own == bandit_sessions[sid]
             n == Len(rl_training_data)
         IN  /\ DOMAIN bandit_sessions' = DOMAIN bandit_sessions
             /\ DOMAIN weight_dicts' = DOMAIN weight_dicts
             /\ DOMAIN metric_dicts' = DOMAIN metric_dicts
             /\ \A s \in DOMAIN bandit_sessions \ {sid} :
                   /\ bandit_sessions'[s] = bandit_sessions[s]
                   /\ bandit_sessions[s].weight_vectors # own.weight_vectors
                   /\ bandit_sessions[s].policy_metrics # own.policy_metrics
             /\ own.weight_vectors # DefaultRef
             /\ own.policy_metrics # DefaultRef
             /\ \A r \in DOMAIN weight_dicts \ {own.weight_vectors} :
                   weight_dicts'[r] = weight_dicts[r]
             /\ \A r \in DOMAIN metric_dicts \ {own.policy_metrics} :
                   metric_dicts'[r] = metric_dicts[r]
             /\ \A t \in DOMAIN pending' : /\ t \in DOMAIN pending
                                           /\ pending'[t] = pending[t]
             /\ \A t \in DOMAIN pending \ DOMAIN pending' :
                   pending[t].sid = sid
             /\ Len(rl_training_data') = n + 1
             /\ SubSeq(rl_training_data', 1, n) = rl_training_data
             /\ rl_training_data'[n + 1].sessionId = sid
             /\ rl_training_data'[n + 1].weightVectors = own.weight_vectors
             /\ rl_training_data'[n + 1].policyMetrics = own.policy_metrics
      ]_vars

\* The training-data list holds the records of two sessions, each of which
\* has the matching tick record in its own history
C11_Witness ==
    \E i \in DOMAIN rl_training_data, j \in DOMAIN rl_training_data :
       /\ i < j
       /\ rl_training_data[i].sessionId # rl_training_data[j].sessionId
       /\ Len(bandit_sessions[rl_training_data[i].sessionId].history) = 1
       /\ Len(bandit_sessions[rl_training_data[j].sessionId].history) = 1

\* C12 - Session expiry does not block stepping: a step on an existing
\* session that ends after the session's expiry time (creation + 1800 s)
\* returns a normal response whose action is one of the seven actions and
\* whose sessionExpired flag is true; a step completed at or before the
\* expiry time returns sessionExpired false.
C12_ExpiryDoesNotBlock ==
    [][(/\ response'.type \in {"step", "error"}
        /\ response'.request \in DOMAIN bandit_sessions) =>
          LET session_state == bandit_sessions[response'.request]
          IN  /\ session_state.expires_at =
                    session_state.created_at + SessionLifetime
              /\ now > session_state.expires_at =>
                    /\ response'.type = "step"
                    /\ response'.action \in Actions
                    /\ response'.sessionExpired = TRUE
              /\ (response'.type = "step" /\ now <= session_state.expires_at)
                    => response'.sessionExpired = FALSE
      ]_vars

\* C13 - Context clamp invariant: for every code text and every list of
\* execution attempts a context is built, and its code cleanliness and its
\* failure rate are in [0, 1] (0..1000 thousandths).
C13_ContextClamped ==
    response.type \in {"context", "context_error"} =>
       /\ response.type = "context"
       /\ response.context.code_cleanliness >= 0
       /\ response.context.code_cleanliness <= 1000
       /\ response.context.fail_rate >= 0
       /\ response.context.fail_rate <= 1000

\* C14 - One-hot error encoding: in the feature vector of every context each
\* of the four error-type slots (6..9: syntax, runtime, edge_case, timeout)
\* is 0 or 1 and at most one is 1; when the error type is one of the four,
\* exactly its own slot is 1; when it is "none", all four are 0.
C14_OneHotErrorEncoding ==
    response.type = "context" =>
       LET fv == response.feature_vec
           err == response.context.error_type
           ones == {i \in 6..9 : fv[i] = 1000}
       IN  /\ Len(fv) = NumFeatures
           /\ \A i \in 6..9 : fv[i] \in {0, 1000}
           /\ Cardinality(ones) <= 1
           /\ err \in {"none", "syntax", "runtime", "edge_case", "timeout"}
           /\ err = "syntax" => ones = {6}
           /\ err = "runtime" => ones = {7}
           /\ err = "edge_case" => ones = {8}
           /\ err = "timeout" => ones = {9}
           /\ err = "none" => ones = {}

\* A context whose last failing attempt timed out after an earlier syntax
\* error: only the timeout slot is set
C14_Witness ==
    /\ response.type = "context"
    /\ Len(response.step.executionAttempts) = 2
    /\ response.step.executionAttempts[1].error = ErrText(<<"SyntaxError">>)
    /\ response.step.executionAttempts[2].error = ErrText(<<"Timeout">>)
    /\ response.context.error_type = "timeout"
    /\ SubSeq(response.feature_vec, 6, 9) = <<0, 0, 0, 1000>>

\* C15 - Score map completeness and validity of the choice: in the exploring
\* and in the greedy branch select_bandit_action returns a score for each of
\* the seven actions and a chosen action that is one of the seven; each score
\* is the dot product of the action's weight vector with the feature vector
\* plus the action's bias (compared here in 1e-9).
C15_ScoresCompleteChoiceValid ==
    response.type = "select" =>
       /\ DOMAIN response.scores = Actions
       /\ response.chosen \in Actions
       /\ \A a \in Actions :
             LET prod == [i \in 1..NumFeatures |->
                            response.weights[a][i] * response.feature_vec[i]]
             IN  /\ response.scores[a].nano \in 0..999
                 /\ response.scores[a].micro * 1000 + response.scores[a].nano
                       = SumTo(prod, NumFeatures)
                         + 1000 * action_bias(a, response.context,
                                              response.policy_metrics)

\* The exploring branch drew strong_hint for a calm context, where its score
\* (0.04) is below that of refactor_followup (0.23)
C15_Witness ==
    /\ response.type = "select"
    /\ response.explore
    /\ response.chosen = "strong_hint"
    /\ response.context.pause_length = 0
    /\ response.context.fail_rate = 0
    /\ response.scores["strong_hint"] = [micro |-> 40000, nano |-> 0]
    /\ response.scores["refactor_followup"] = [micro |-> 230000, nano |-> 0]

\* C16 - Greedy selection and tie-break: when the selection does not explore,
\* no action has a higher score than the chosen one, and every action before
\* the chosen one in the fixed order of the action space has a lower score.
C16_GreedyFirstMax ==
    (response.type = "select" /\ ~response.explore) =>
       LET k == CHOOSE i \in 1..Len(ACTION_SPACE) :
                   ACTION_SPACE[i] = response.chosen
       IN  \A j \in 1..Len(ACTION_SPACE) :
              /\ ~ScoreGreater(response.scores[ACTION_SPACE[j]],
                               response.scores[response.chosen])
              /\ j < k => ScoreGreater(response.scores[response.chosen],
                                       response.scores[ACTION_SPACE[j]])

\* debug_followup and edge_case_followup tie at the highest score (0.4) and
\* the greedy branch chose debug_followup, the earlier of the two
C16_Witness ==
    /\ response.type = "select"
    /\ ~response.explore
    /\ response.chosen = "debug_followup"
    /\ response.scores["debug_followup"] = [micro |-> 400000, nano |-> 0]
    /\ response.scores["edge_case_followup"] = [micro |-> 400000, nano |-> 0]

\* C18 - Malformed telemetry is fail-safe: summarize_failures gives a result
\* for every list of attempt records, whatever fields they lack; a record
\* without the passed field, with or without an error field, counts as a
\* failing attempt, so the summary is that of the list in which each such
\* record says passed: false, and the failure rate is at least the share of
\* such records.
C18_MissingPassedCountsAsFailing ==
    response.type \in {"context", "context_error"} =>
       LET attempts == response.step.executionAttempts
           n == Len(attempts)
           lacking == {i \in 1..n : attempts[i].passed = "absent"}
           explicit == [i \in 1..n |->
                          IF i \in lacking
                          THEN [attempts[i] EXCEPT !.passed = "false"]
                          ELSE attempts[i]]
       IN  /\ response.step.code = <<>> => response.type = "context"
           /\ response.type = "context" =>
                 /\ [fail_rate |-> response.context.fail_rate,
                     error_type |-> response.context.error_type]
                       = summarize_failures(explicit)
                 /\ n > 0 => response.context.fail_rate >=
                                RoundHalfEven(1000 * Cardinality(lacking), n)
                 /\ (n > 0 /\ lacking = 1..n) =>
                       response.context.fail_rate = 1000

\* Of two attempts the first has neither passed nor error and the second
\* passed: the failure rate is 0.5
C18_Witness ==
    /\ response.type = "context"
    /\ response.step.executionAttempts =
          <<[passed |-> "absent", error |-> ErrAbsent], PassedRun>>
    /\ response.context.fail_rate = 500
    /\ response.context.error_type = "none"

\* C19 - When the pause is over 40 s and the failure rate is at least 0.5,
\* the bias of strong_hint is at least 0.60 and that of debug_followup at
\* least 0.20, and the bias of strong_hint is strictly greater than that of
\* each of the other six actions, for every cleanliness, error type,
\* hints-used count and policy-metric value.
C19_StuckFavoursStrongHint ==
    (/\ response.type = "bias"
     /\ response.context.pause_length > 4000
     /\ response.context.fail_rate >= 500) =>
       /\ response.bias["strong_hint"] >= 600000
       /\ response.bias["debug_followup"] >= 200000
       /\ \A a \in Actions \ {"strong_hint"} :
             response.bias["strong_hint"] > response.bias[a]

\* A pause just over 40 s, a failure rate of exactly 0.5, unclean code, an
\* edge-case error, two hints used and a high optimization metric: every
\* rule that raises another action fires, and strong_hint is still ahead
C19_Witness ==
    /\ response.type = "bias"
    /\ response.context.pause_length = 4001
    /\ response.context.fail_rate = 500
    /\ response.context.code_cleanliness = 0
    /\ response.context.error_type = "edge_case"
    /\ response.context.hints_used = 2
    /\ response.policy_metrics["time_factor_optimization"] = 351
    /\ response.bias = [no_hint |-> 50000, gentle_hint |-> 330000,
                        strong_hint |-> 600000, debug_followup |-> 200000,
                        refactor_followup |-> 180000,
                        optimization_followup |-> 120000,
                        edge_case_followup |-> 220000]

\* C20 - A freshly started session has weight vectors of 9 components each,
\* all 0.1 for the four follow-up actions, 0.08 for gentle_hint and
\* strong_hint and 0.05 for no_hint (in 1e-6); all four policy metrics 0.25
\* (in 1e-3); an empty history; no last context; and an expiry time equal to
\* its creation time, the time of the start, plus 1800 seconds.
C20_FreshSessionState ==
    [][response'.type = "start" =>
         LET new == bandit_sessions'[response'.sessionId]
             w == weight_dicts'[new.weight_vectors]
             m == metric_dicts'[new.policy_metrics]
         IN  /\ DOMAIN w = Actions
             /\ \A a \in Actions :
                   /\ Len(w[a]) = 9
                   /\ \A i \in 1..9 :
                         w[a][i] =
                            IF a = "no_hint" THEN 50000
                            ELSE IF a \in {"gentle_hint", "strong_hint"}
                            THEN 80000
                            ELSE 100000
             /\ DOMAIN m = {"debugging", "refactor",
                            "time_factor_optimization", "edge_case_resilience"}
             /\ \A k \in DOMAIN m : m[k] = 250
             /\ new.history = <<>>
             /\ new.last_context = None
             /\ new.created_at = now
             /\ new.expires_at = new.created_at + 1800
             /\ response'.expiresAt = new.expires_at
             /\ response'.weightVectors = w
             /\ response'.policyMetrics = m
      ]_vars

\* A session started at time 1801, to expire at 3601, with the default
\* weights, while an earlier session has stepped and moved its own
C20_Witness ==
    /\ response.type = "start"
    /\ now = 1801
    /\ bandit_sessions[response.sessionId].created_at = 1801
    /\ bandit_sessions[response.sessionId].expires_at = 3601
    /\ bandit_sessions[response.sessionId].history = <<>>
    /\ WeightsOf(response.sessionId)["no_hint"][1] = 50000
    /\ \E s \in DOMAIN bandit_sessions :
          /\ Len(bandit_sessions[s].history) >= 1
          /\ WeightsOf(s) # WeightsOf(response.sessionId)

\* C21 - Weight update rule and its ordering: each component i of the chosen
\* action's vector becomes w[i] + 0.1 * (reward - baseline) * feature[i],
\* to 6 decimals, with the baseline held before the call; the baseline then
\* becomes 0.9 * baseline + 0.1 * reward, to 4 decimals, which is the raw
\* reward only when the baseline already was.  (Compared in 1e-8 and 1e-5:
\* the new value is within half a unit of its last decimal of the exact one.)
C21_UpdateRuleAndOrder ==
    response.type = "update" =>
       LET b == response.before.reward_baseline
           r == response.reward
           w == response.before.weight_vectors[response.action]
           w2 == response.after.weight_vectors[response.action]
           b2 == response.after.reward_baseline
       IN  /\ \A i \in 1..NumFeatures :
                 LET exact == w[i] * 100 + (r * 10 - b) * response.feature_vec[i]
                 IN  /\ 2 * (w2[i] * 100 - exact) <= 100
                     /\ 2 * (exact - w2[i] * 100) <= 100
           /\ 2 * (b2 * 10 - (9 * b + 10 * r)) <= 10
           /\ 2 * ((9 * b + 10 * r) - b2 * 10) <= 10
           /\ b # r * 10 => b2 # r * 10

\* A session with baseline 0.232 gets reward -0.25 for a context with a pause
\* of 50 s: the pause component of strong_hint's vector moves by
\* 0.1 * (-0.482) * 0.833 = -0.04015060, stored as -0.040151, and the
\* baseline becomes 0.1838
C21_Witness ==
    /\ response.type = "update"
    /\ response.action = "strong_hint"
    /\ response.before.reward_baseline = 2320
    /\ response.reward = -250
    /\ response.feature_vec[1] = 833
    /\ response.after.weight_vectors["strong_hint"][1]
          = response.before.weight_vectors["strong_hint"][1] - 40151
    /\ response.after.reward_baseline = 1838

\* C22 - Reward formula: when a previous context exists the reward is
\* 0.5 * (prev.fail_rate - curr.fail_rate)
\* + 0.3 * (curr.cleanliness - prev.cleanliness)
\* + 0.2 * clamp((curr.total_changes - prev.total_changes) / 10, 0, 1),
\* to 3 decimals; a decrease of total_changes contributes 0 and an increase
\* of 10 or more contributes exactly 0.2.  (Compared in 1e-4.)
C22_RewardFormula ==
    (response.type = "reward" /\ response.prev_context # None) =>
       LET cur == response.context
           prev == response.prev_context
           dt == cur.total_changes - prev.total_changes
           gain == IF dt <= 0 THEN 0 ELSE IF dt >= 10 THEN 2000 ELSE 200 * dt
           exact == 5 * (prev.fail_rate - cur.fail_rate)
                    + 3 * (cur.code_cleanliness - prev.code_cleanliness)
                    + gain
       IN  /\ 2 * (response.reward * 10 - exact) <= 10
           /\ 2 * (exact - response.reward * 10) <= 10

\* The failure rate went from 1 to 0, the cleanliness from 0 to 0.55 and the
\* count of changes from 0 to 25: the reward is 0.5 + 0.165 + 0.2
C22_Witness ==
    /\ response.type = "reward"
    /\ response.prev_context =
          [fail_rate |-> 1000, code_cleanliness |-> 0, total_changes |-> 0]
    /\ response.context =
          [fail_rate |-> 0, code_cleanliness |-> 550, total_changes |-> 25]
    /\ response.reward = 865

\* C23 - The over-hinting penalty never fires: with hints_used >= 2 no_hint
\* receives +0.05 and no action receives -0.05, so the bias of every action
\* other than no_hint is what it is with no hint used, and the bias of
\* no_hint is 0.05; the bias is never negative.
C23_HintPenaltyNeverFires ==
    response.type = "bias" =>
       LET unhinted == [response.context EXCEPT !.hints_used = 0]
       IN  /\ \A a \in Actions : response.bias[a] >= 0
           /\ response.context.hints_used >= 2 =>
                 /\ response.bias["no_hint"] = 50000
                 /\ \A a \in Actions \ {"no_hint"} :
                       response.bias[a] =
                          action_bias(a, unhinted, response.policy_metrics)
           /\ response.context.hints_used < 2 => response.bias["no_hint"] = 0

\* Two hints used, no pause, no failure, clean code: no_hint has 0.05 and
\* every other action, the two hint actions included, has 0
C23_Witness ==
    /\ response.type = "bias"
    /\ response.context.hints_used = 2
    /\ response.context.pause_length = 0
    /\ response.context.fail_rate = 0
    /\ response.context.code_cleanliness = 1000
    /\ response.context.error_type = "none"
    /\ response.policy_metrics["time_factor_optimization"] = 0
    /\ response.bias = [a \in Actions |-> IF a = "no_hint" THEN 50000 ELSE 0]

\* C24 - as stated: the bias of an action is the sum of those of six rules
\* that fire for it (pause > 20 s, pause > 40 s, failure rate >= 0.5,
\* cleanliness < 0.6, optimization metric > 0.35, edge-case error), and an
\* action named in none of them has bias 0.
C24_SumOfSixRules ==
    response.type = "bias" =>
          LET c == response.context
              m == response.policy_metrics
              pause20 == IF c.pause_length > 2000 THEN 150000 ELSE 0
              pause40 == IF c.pause_length > 4000 THEN 250000 ELSE 0
              failing == IF c.fail_rate >= 500 THEN 200000 ELSE 0
              unclean == IF c.code_cleanliness < 600 THEN 180000 ELSE 0
              slow == IF m["time_factor_optimization"] > 350 THEN 120000 ELSE 0
              edge == IF c.error_type = "edge_case" THEN 220000 ELSE 0
          IN  /\ response.bias["no_hint"] = 0
              /\ response.bias["gentle_hint"] = pause20 + unclean
              /\ response.bias["strong_hint"] = pause20 + pause40 + failing
              /\ response.bias["debug_followup"] = failing
              /\ response.bias["refactor_followup"] = unclean
              /\ response.bias["optimization_followup"] = slow
              /\ response.bias["edge_case_followup"] = edge

\* C24 - amended: the bias of an action is the sum of those of seven rules
\* that fire for it: the six above and +0.05 for no_hint when hints_used is
\* 2 or more; pause > 20 and pause > 40 are strict, failure rate >= 0.5 is
\* inclusive, cleanliness < 0.6 and metric > 0.35 are strict.
C24_SumOfSevenRules ==
    response.type = "bias" =>
          LET c == response.context
              m == response.policy_metrics
              pause20 == IF c.pause_length > 2000 THEN 150000 ELSE 0
              pause40 == IF c.pause_length > 4000 THEN 250000 ELSE 0
              failing == IF c.fail_rate >= 500 THEN 200000 ELSE 0
              unclean == IF c.code_cleanliness < 600 THEN 180000 ELSE 0
              slow == IF m["time_factor_optimization"] > 350 THEN 120000 ELSE 0
              edge == IF c.error_type = "edge_case" THEN 220000 ELSE 0
              hinted == IF c.hints_used >= 2 THEN 50000 ELSE 0
          IN  /\ response.bias["no_hint"] = hinted
              /\ response.bias["gentle_hint"] = pause20 + unclean
              /\ response.bias["strong_hint"] = pause20 + pause40 + failing
              /\ response.bias["debug_followup"] = failing
              /\ response.bias["refactor_followup"] = unclean
              /\ response.bias["optimization_followup"] = slow
              /\ response.bias["edge_case_followup"] = edge

\* Every argument sits on its threshold: a pause of exactly 40 s, a failure
\* rate of exactly 0.5, a cleanliness of exactly 0.6, a metric of exactly
\* 0.35 and two hints used.  Only the inclusive tests and pause > 20 fire.
C24_Witness ==
    /\ response.type = "bias"
    /\ response.context.pause_length = 4000
    /\ response.context.fail_rate = 500
    /\ response.context.code_cleanliness = 600
    /\ response.context.error_type = "timeout"
    /\ response.context.hints_used = 2
    /\ response.policy_metrics["time_factor_optimization"] = 350
    /\ response.bias = [no_hint |-> 50000, gentle_hint |-> 150000,
                        strong_hint |-> 350000, debug_followup |-> 200000,
                        refactor_followup |-> 0,
                        optimization_followup |-> 0,
                        edge_case_followup |-> 0]

\* C25 - Next-evaluation delay: schedule_next_evaluation returns 30000 when
\* the failure rate is 0 and the cleanliness is above 0.8, whatever the pause
\* and the action; otherwise 8000 when the pause is above 45 s; otherwise
\* 12000 when the action is strong_hint; otherwise 20000.
C25_DelayPriority ==
    response.type = "schedule" =>
        LET c == response.context
            healthy == c.fail_rate = 0 /\ c.code_cleanliness > 800
            stalled == c.pause_length > 4500
        IN  /\ response.next_eval_ms \in {30000, 8000, 12000, 20000}
            /\ healthy => response.next_eval_ms = 30000
            /\ ~healthy /\ stalled => response.next_eval_ms = 8000
            /\ ~healthy /\ ~stalled /\ response.action = "strong_hint"
                  => response.next_eval_ms = 12000
            /\ ~healthy /\ ~stalled /\ response.action # "strong_hint"
                  => response.next_eval_ms = 20000

\* All three tests succeed at once (strong_hint, a pause over 45 s, a clean
\* passing state) and the delay is the one of the last test.
C25_Witness ==
    /\ response.type = "schedule"
    /\ response.action = "strong_hint"
    /\ response.context.pause_length = 4501
    /\ response.context.fail_rate = 0
    /\ response.context.code_cleanliness = 801
    /\ response.next_eval_ms = 30000

\* C26 - Error categorization precedence: the markers are looked for in the
\* lower-cased text in the order syntax/parse, timeout, assert/expect; a text
\* with a syntax marker is syntax whatever else it holds, a text with a
\* timeout marker and no syntax marker is timeout, a text with an assert
\* marker and neither of those is edge_case, any other non-empty text is
\* runtime and the empty text is none.
C26_CategoryPrecedence ==
    response.type = "categorize" =>
        LET t == response.err_msg
            syntax == LowerContains(t, "syntax") \/ LowerContains(t, "parse")
            timeout == LowerContains(t, "timeout")
            assert == LowerContains(t, "assert") \/ LowerContains(t, "expect")
        IN  /\ t = <<>> => response.category = "none"
            /\ syntax => response.category = "syntax"
            /\ ~syntax /\ timeout => response.category = "timeout"
            /\ ~syntax /\ ~timeout /\ assert => response.category = "edge_case"
            /\ t # <<>> /\ ~syntax /\ ~timeout /\ ~assert
                  => response.category = "runtime"

\* A text whose first word is an upper-case timeout and whose second word
\* is a syntax error is categorized as syntax.
C26_Witness ==
    /\ response.type = "categorize"
    /\ response.err_msg = <<"TIMEOUT", "SyntaxError">>
    /\ response.category = "syntax"

\* C27 - The context's error type is the category of the error text of the
\* most recent failing attempt of the execution-attempt list: passed
\* attempts after it and failing attempts before it have no influence, and
\* when that attempt carries no error text (the field is missing, null or
\* empty) the error type is none; with no failing attempt it is none.
C27_LastFailingAttemptDecides ==
    response.type = "context" =>
        LET attempts == response.step.executionAttempts
            failing == {i \in 1..Len(attempts) : AttemptFails(attempts[i])}
        IN  IF failing = {}
            THEN response.context.error_type = "none"
            ELSE LET last == CHOOSE i \in failing : \A j \in failing : j <= i
                     error == attempts[last].error
                     text == IF error.kind = "str" THEN error.text ELSE <<>>
                 IN  response.context.error_type = categorize_error(text)

\* C28 - A step that completes on an expired session changes the session
\* exactly as a step on a live session does: the weight dict of the session
\* becomes what update_bandit_weights makes of it for the chosen action and
\* the reward applied, the baseline moves with it, the policy metrics become
\* what update_policy_metrics makes of them, the last context becomes the
\* step's context and the history grows by one record of this step.
C28_ExpiredStepStillMutates ==
    [][(response'.type = "step" /\ response'.sessionExpired) =>
          LET sid == response'.sessionId
              before == bandit_sessions[sid]
              after == bandit_sessions'[sid]
              context == response'.contextFeatures
              reward == response'.rewardApplied
              upd == update_bandit_weights(
                         weight_dicts[before.weight_vectors],
                         before.reward_baseline, response'.action, reward,
                         feature_vector_from_context(context))
          IN  /\ now > before.expires_at
              /\ weight_dicts'[after.weight_vectors] = upd.weight_vectors
              /\ after.reward_baseline = upd.reward_baseline
              /\ metric_dicts'[after.policy_metrics] =
                    update_policy_metrics(metric_dicts[before.policy_metrics],
                                          context, reward)
              /\ after.last_context = context
              /\ Len(after.history) = Len(before.history) + 1
              /\ SubSeq(after.history, 1, Len(before.history)) = before.history
              /\ after.history[Len(after.history)].action = response'.action
              /\ after.history[Len(after.history)].reward = reward
              /\ after.history[Len(after.history)].context = context
      ]_vars

\* The second step of a session completed after its expiry: the answer is
\* flagged expired, carries a reward other than 0, and the session holds two
\* history records, a baseline off its initial value and the step's context.
C28_Witness ==
    /\ response.type = "step"
    /\ response.sessionExpired
    /\ response.rewardApplied # 0
    /\ Len(bandit_sessions[response.sessionId].history) = 2
    /\ bandit_sessions[response.sessionId].reward_baseline # InitialBaseline
    /\ bandit_sessions[response.sessionId].last_context = response.contextFeatures
    /\ weight_dicts[bandit_sessions[response.sessionId].weight_vectors]
          # DEFAULT_ACTION_WEIGHTS

\* C29 - History is append-only and sessions are never removed: a session
\* id in the store stays in it, every history and the training data keep
\* what they hold, a completed step adds exactly one record to the history
\* of its session and one to the training data, and nothing else adds any.
C29_AppendOnly ==
    [][/\ DOMAIN bandit_sessions \subseteq DOMAIN bandit_sessions'
       /\ Len(rl_training_data') >= Len(rl_training_data)
       /\ \A i \in 1..Len(rl_training_data) :
             rl_training_data'[i] = rl_training_data[i]
       /\ \A sid \in DOMAIN bandit_sessions :
             LET old == bandit_sessions[sid].history
                 new == bandit_sessions'[sid].history
                 stepped == response'.type = "step" /\ response'.sessionId = sid
             IN  /\ Len(new) = Len(old) + (IF stepped THEN 1 ELSE 0)
                 /\ SubSeq(new, 1, Len(old)) = old
       /\ Len(rl_training_data') =
             Len(rl_training_data) + (IF response'.type = "step" THEN 1 ELSE 0)
       /\ response'.type = "step" =>
             rl_training_data'[Len(rl_training_data')].sessionId
                = response'.sessionId
      ]_vars

\* Two sessions in the store, the one just stepped with two history records,
\* and two records in the training data.
C29_Witness ==
    /\ response.type = "step"
    /\ Cardinality(DOMAIN bandit_sessions) = 2
    /\ Len(bandit_sessions[response.sessionId].history) = 2
    /\ Len(rl_training_data) = 2

\* C30 - Tick records are snapshots: no step changes a record already in a
\* history or in the training data, nor the weight vectors and the policy
\* metrics that a training-data record shows, which stay those of its tick.
C30_TickRecordsAreSnapshots ==
    [][/\ \A sid \in DOMAIN bandit_sessions :
             \A i \in 1..Len(bandit_sessions[sid].history) :
                bandit_sessions'[sid].history[i] = bandit_sessions[sid].history[i]
       /\ \A i \in 1..Len(rl_training_data) :
             /\ rl_training_data'[i] = rl_training_data[i]
             /\ weight_dicts'[rl_training_data'[i].weightVectors]
                   = weight_dicts[rl_training_data[i].weightVectors]
             /\ metric_dicts'[rl_training_data'[i].policyMetrics]
                   = metric_dicts[rl_training_data[i].policyMetrics]
      ]_vars

\* C31 - The hint-generation collaborator is called once by a step whose
\* action is not no_hint and not at all by a step whose action is no_hint:
\* a step suspends in the call only with an action other than no_hint, a
\* suspended tick passes from awaiting to returned to completed and never
\* back, a step with no_hint completes without having been suspended, and
\* the hint of the answer is null exactly when the action is no_hint.
C31_HintCalledOnceUnlessNoHint ==
    [][/\ \A tick \in DOMAIN pending' :
             /\ pending'[tick].action # "no_hint"
             /\ tick \in DOMAIN pending =>
                   /\ pending'[tick].action = pending[tick].action
                   /\ pending[tick].call = "returned"
                         => pending'[tick].call = "returned"
       /\ response'.type = "suspended" =>
             /\ Cardinality(DOMAIN pending') = Cardinality(DOMAIN pending) + 1
             /\ \A tick \in DOMAIN pending' \ DOMAIN pending :
                   pending'[tick].call = "awaiting"
       /\ response'.type = "step" =>
             /\ (response'.hint = None) <=> (response'.action = "no_hint")
             /\ (response'.callOutcome = "not_called")
                   <=> (response'.action = "no_hint")
             /\ response'.action = "no_hint" => pending' = pending
             /\ response'.action # "no_hint" =>
                   \E tick \in DOMAIN pending \ DOMAIN pending' :
                      /\ pending[tick].call = "returned"
                      /\ pending[tick].action = response'.action
                      /\ pending' = Without(pending, tick)
      ]_vars

\* A step that chose an action other than no_hint has completed with the
\* object the language model wrote, and no tick is left suspended.
C31_Witness ==
    /\ response.type = "step"
    /\ response.action # "no_hint"
    /\ response.callOutcome = "json"
    /\ response.hint = LlmPayload(response.action)
    /\ pending = <<>>

\* C32 - Previous-context hand-over in sequential use: when the steps of
\* each session run one after another, the last context of a session is the
\* context of its latest completed step, the reward of its first step is 0
\* and the reward of its n-th step (n >= 2) is the reward of the context of
\* step n against the context of step n-1.
C32_ContextHandOver ==
    \A sid \in DOMAIN bandit_sessions :
       LET h == bandit_sessions[sid].history
       IN  /\ bandit_sessions[sid].last_context =
                 (IF Len(h) = 0 THEN None ELSE h[Len(h)].context)
           /\ \A n \in 1..Len(h) :
                 h[n].reward =
                    compute_reward(h[n].context,
                                   IF n = 1 THEN None ELSE h[n - 1].context)

\* The second step of a session waited for the hint call, and its reward,
\* other than 0, comes from a context unlike that of the first step.
C32_Witness ==
    \E sid \in DOMAIN bandit_sessions :
       LET h == bandit_sessions[sid].history
       IN  /\ Len(h) = 2
           /\ h[2].hint # None
           /\ h[2].context # h[1].context
           /\ h[2].reward # 0
           /\ bandit_sessions[sid].last_context = h[2].context

\* C33 - Normalized features stay in range: for every pause the normalized
\* pause is min(pause / 60, 1) to three decimals, the normalized hint count
\* is min(hints / 3, 1) to three decimals, the normalized difficulty is 0.2,
\* 0.5 or 0.8 (0.5 for an unknown level), and every component of the
\* feature vector lies in [0, 1].
C33_FeaturesInRange ==
    response.type = "features" =>
        LET c == response.context
            x == response.feature_vec
        IN  /\ LET got == x[1] * 6000
                   exact == Min(c.pause_length * 1000, 6000000)
               IN  2 * (got - exact) <= 6000 /\ 2 * (exact - got) <= 6000
            /\ LET got == x[4] * 3
                   exact == Min(c.hints_used * 1000, 3000)
               IN  2 * (got - exact) <= 3 /\ 2 * (exact - got) <= 3
            /\ x[5] = (IF c.difficulty = "easy" THEN 200
                       ELSE IF c.difficulty = "hard" THEN 800 ELSE 500)
            /\ \A i \in 1..NumFeatures : x[i] >= 0 /\ x[i] <= 1000

\* C34 - Within one step, action selection precedes learning: the scores of
\* a step and its action are computed from the weight vectors and the policy
\* metrics the session holds when the step selects, which the selection
\* leaves as they are; the step's own updates come after, the answer carries
\* the scores of the selection and the policy metrics as updated by the step.
C34_SelectionPrecedesLearning ==
    [][/\ response'.type = "suspended" =>
             /\ weight_dicts' = weight_dicts
             /\ metric_dicts' = metric_dicts
             /\ \A tick \in DOMAIN pending' \ DOMAIN pending :
                   LET frame == pending'[tick]
                       session_state == bandit_sessions[frame.sid]
                       sel == select_bandit_action(
                                  weight_dicts[session_state.weight_vectors],
                                  metric_dicts[session_state.policy_metrics],
                                  frame.context, frame.feature_vec,
                                  FALSE, frame.action)
                   IN  /\ frame.scores = sel.scores
                       /\ frame.action \in {sel.chosen} \cup ExploreChoices
       /\ response'.type = "step" =>
             LET session_state == bandit_sessions[response'.sessionId]
                 context == response'.contextFeatures
                 mref == session_state.policy_metrics
             IN  /\ response'.callOutcome = "not_called" =>
                       LET sel == select_bandit_action(
                                      weight_dicts[session_state.weight_vectors],
                                      metric_dicts[mref], context,
                                      feature_vector_from_context(context),
                                      FALSE, response'.action)
                       IN  /\ response'.scores = sel.scores
                           /\ response'.action
                                 \in {sel.chosen} \cup ExploreChoices
                 /\ response'.callOutcome # "not_called" =>
                       \E tick \in DOMAIN pending \ DOMAIN pending' :
                          /\ response'.scores = pending[tick].scores
                          /\ response'.action = pending[tick].action
                 /\ response'.policyMetrics = metric_dicts'[mref]
                 /\ response'.policyMetrics =
                       update_policy_metrics(metric_dicts[mref], context,
                                             response'.rewardApplied)
      ]_vars

\* A completed step whose answer carries scores that the weights and metrics
\* the session holds now would no longer give, and metrics that are no
\* longer the default ones.
C34_Witness ==
    /\ response.type = "step"
    /\ LET session_state == bandit_sessions[response.sessionId]
       IN  response.scores #
              select_bandit_action(weight_dicts[session_state.weight_vectors],
                                   metric_dicts[session_state.policy_metrics],
                                   response.contextFeatures,
                                   feature_vector_from_context(
                                       response.contextFeatures),
                                   FALSE, response.action).scores
    /\ response.policyMetrics # DEFAULT_POLICY_METRICS
    /\ response.policyMetrics = MetricsOf(response.sessionId)

\* C35 - Interleaved ticks of one session lose no update: whatever ticks are
\* suspended and in whatever order they complete, a completed step changes
\* the weight dict of its session into what update_bandit_weights makes of
\* the weights and the baseline the session holds at that moment, and adds
\* one record to its history; so each history is as long as the number of
\* steps of the session that completed (one training-data record each).
C35_NoLostUpdate ==
    [][/\ response'.type = "step" =>
             LET sid == response'.sessionId
                 before == bandit_sessions[sid]
                 after == bandit_sessions'[sid]
                 upd == update_bandit_weights(
                            weight_dicts[before.weight_vectors],
                            before.reward_baseline, response'.action,
                            response'.rewardApplied,
                            feature_vector_from_context(
                                response'.contextFeatures))
             IN  /\ weight_dicts'[after.weight_vectors] = upd.weight_vectors
                 /\ after.history =
                       Append(before.history,
                              after.history[Len(after.history)])
                 /\ after.history[Len(after.history)].weights
                       = upd.weight_vectors[response'.action]
       /\ \A sid \in DOMAIN bandit_sessions' :
             Len(bandit_sessions'[sid].history) =
                Cardinality({i \in 1..Len(rl_training_data') :
                                rl_training_data'[i].sessionId = sid})
      ]_vars

\* Two ticks of one session were suspended together: the second record has
\* reward 0 although its context, set against that of the first, gives
\* another reward.  Both waited for the hint call, and the weights of both
\* actions have left their priors.
C35_Witness ==
    \E sid \in DOMAIN bandit_sessions :
       LET h == bandit_sessions[sid].history
       IN  /\ Len(h) = 2
           /\ h[1].hint # None
           /\ h[2].hint # None
           /\ h[2].reward = 0
           /\ compute_reward(h[2].context, h[1].context) # 0
           /\ \A n \in 1..2 :
                 WeightsOf(sid)[h[n].action] # DEFAULT_ACTION_WEIGHTS[h[n].action]
           /\ pending = <<>>

\* C36 - First-step penalty: the first step a session completes has reward
\* 0 against the initial baseline 0.3, so component i of the weight vector
\* of its action moves from its prior by -0.03 * feature[i], which is not 0
\* for the difficulty component, and the baseline becomes 0.27.
C36_FirstStepPenalty ==
    [][(/\ response'.type = "step"
        /\ bandit_sessions[response'.sessionId].history = <<>>) =>
          LET sid == response'.sessionId
              a == response'.action
              x == feature_vector_from_context(response'.contextFeatures)
              w == weight_dicts'[bandit_sessions'[sid].weight_vectors]
          IN  /\ response'.rewardApplied = 0
              /\ bandit_sessions[sid].reward_baseline = 3000
              /\ bandit_sessions'[sid].reward_baseline = 2700
              /\ \A i \in 1..NumFeatures :
                    w[a][i] = DEFAULT_ACTION_WEIGHTS[a][i] - 30 * x[i]
              /\ w[a] # DEFAULT_ACTION_WEIGHTS[a]
              /\ \A b \in Actions \ {a} : w[b] = DEFAULT_ACTION_WEIGHTS[b]
      ]_vars

\* After the first step of a session, a step with a long pause: the pause
\* weight of its action is 0.03 under its prior and the baseline is 0.27.
C36_Witness ==
    /\ response.type = "step"
    /\ Len(bandit_sessions[response.sessionId].history) = 1
    /\ feature_vector_from_context(response.contextFeatures)[1] = 1000
    /\ WeightsOf(response.sessionId)[response.action][1]
          = DEFAULT_ACTION_WEIGHTS[response.action][1] - 30000
    /\ bandit_sessions[response.sessionId].reward_baseline = 2700

\* C37 - Structure invariant of the weights: in every reachable state every
\* weight dict has exactly the seven actions as keys and each of its weight
\* vectors has exactly nine components, as has every feature vector and
\* every weight snapshot of a history record.
C37_WeightStructure ==
    /\ \A r \in DOMAIN weight_dicts :
          /\ DOMAIN weight_dicts[r] = Actions
          /\ \A a \in Actions : DOMAIN weight_dicts[r][a] = 1..9
    /\ \A sid \in DOMAIN bandit_sessions :
          /\ bandit_sessions[sid].weight_vectors \in DOMAIN weight_dicts
          /\ \A n \in 1..Len(bandit_sessions[sid].history) :
                /\ Len(bandit_sessions[sid].history[n].weights) = 9
                /\ Len(bandit_sessions[sid].history[n].featureVector) = 9
    /\ Cardinality(Actions) = 7

\* A session that completed two steps with two different actions: two of
\* its seven vectors have left their priors and all have nine components.
C37_Witness ==
    \E sid \in DOMAIN bandit_sessions :
       /\ Len(bandit_sessions[sid].history) = 2
       /\ Cardinality({a \in Actions :
                          WeightsOf(sid)[a] # DEFAULT_ACTION_WEIGHTS[a]}) = 2
       /\ \A a \in Actions : Len(WeightsOf(sid)[a]) = 9

\* C38 - Reward bound: for any two contexts whose cleanliness and failure
\* rate are in [0, 1] the reward lies in [-0.8, 1.0]; the baseline starts at
\* 0.3, and each update leaves it between the baseline before and the reward
\* applied, hence in [-0.8, 1.0] as well.
C38_RewardAndBaselineBounded ==
    /\ InitialBaseline >= -8000 /\ InitialBaseline <= 10000
    /\ response.type = "reward" =>
          response.reward >= -800 /\ response.reward <= 1000
    /\ response.type = "update" =>
          LET b == response.before.reward_baseline
              r == response.reward * 10
              b2 == response.after.reward_baseline
          IN  /\ response.reward >= -800 /\ response.reward <= 1000
              /\ b >= -8000 /\ b <= 10000
              /\ b2 >= Min(b, r) /\ b2 <= Max(b, r)
              /\ b2 >= -8000 /\ b2 <= 10000

\* The lowest reward: every run fails where none did and the cleanliness
\* falls from 1 to 0, with no new change.
C38_Witness ==
    /\ response.type = "reward"
    /\ response.prev_context # None
    /\ response.prev_context.fail_rate = 0
    /\ response.context.fail_rate = 1000
    /\ response.prev_context.code_cleanliness = 1000
    /\ response.context.code_cleanliness = 0
    /\ response.reward = -800

\* C39 - as stated: in every context an error type other than none implies
\* a failure rate greater than 0, and an empty execution-attempt list gives
\* failure rate 0.0 and error type none.
C39_ErrorTypeImpliesFailureRate ==
    response.type = "context" =>
        /\ response.context.error_type # "none"
              => response.context.fail_rate > 0
        /\ response.step.executionAttempts = <<>> =>
              /\ response.context.fail_rate = 0
              /\ response.context.error_type = "none"

\* C39 - amended: in every context an error type other than none implies
\* that at least one attempt of the list failed; the failure rate, rounded
\* to three decimals, is greater than 0 when more than one attempt in 2000
\* failed and 0.0 when fewer did; an empty list gives 0.0 and none.
C39_ErrorTypeImpliesFailedAttempt ==
    response.type = "context" =>
        LET attempts == response.step.executionAttempts
            fail_count == Cardinality({i \in 1..Len(attempts) :
                                         AttemptFails(attempts[i])})
        IN  /\ response.context.error_type # "none" => fail_count >= 1
            /\ 2000 * fail_count > Len(attempts)
                  => response.context.fail_rate > 0
            /\ 2000 * fail_count < Len(attempts)
                  => response.context.fail_rate = 0
            /\ attempts = <<>> =>
                  /\ response.context.fail_rate = 0
                  /\ response.context.error_type = "none"

\* One failed assertion after 2000 passed runs: the error type is edge_case
\* and the failure rate is 0.0.
C39_Witness ==
    /\ response.type = "context"
    /\ Len(response.step.executionAttempts) = 2001
    /\ response.context.error_type = "edge_case"
    /\ response.context.fail_rate = 0

\* C40 - Cleanliness floor: every code text of one line or more has a
\* cleanliness score, which is at least 0.3, and the score 0.0 occurs only
\* for a code text with no line.
C40_CleanlinessFloor ==
    response.type \in {"context", "context_error"} =>
        /\ Len(response.step.code) >= 1 =>
              /\ response.type = "context"
              /\ response.context.code_cleanliness >= 300
        /\ (response.type = "context" /\ response.context.code_cleanliness = 0)
              => Len(response.step.code) = 0

====
